---------------------------- MODULE Spec2Model ----------------------------
(***************************************************************************)
(* A model of the orc_automata simulation kernel: Environment (grid and    *)
(* terrain layers), Orc (one agent), Simulation (the per-tick pipeline).   *)
(*                                                                         *)
(* Floats are fixed-point integers in units of 1/SCALE.  The shared        *)
(* random.Random object is a deterministic stream: its state is a number,  *)
(* every draw advances it and returns a value computed from the new state, *)
(* so that the outcome of a run is a function of the seed and of the       *)
(* sequence of calls, as it is for random.Random(seed).  With the seed     *)
(* None the generator starts in a state the system chooses.                *)
(***************************************************************************)
EXTENDS Integers, Sequences, FiniteSets, TLC

VARIABLES
    settings,     \* Simulation.settings (a SimulationSettings record, seed included)
    grid,         \* Environment._grid: cell -> id of the Orc stored there, 0 for None
    humidity,     \* Environment._humidity: cell -> fixed-point value
    fertility,    \* Environment._fertility
    biome,        \* Environment._biome: cell -> 0, 1 or 2
    orcs,         \* the Orc objects created since construction or reset, by id
    population,   \* Simulation.population: the ids it maps (each to the Orc object orcs[id])
    tick,         \* Simulation.tick
    next_id,      \* Simulation._next_id
    randoms,      \* the random.Random objects of the process: handle -> stream state
    raised,       \* the exception that escaped the last call ("" when none)
    pc,           \* where step() is: "idle" between calls, "loop" inside the for loop
    order,        \* step(): what is left of the shuffled snapshot (ids)
    event,        \* what happened to the agent processed last (observation only)
    calls,        \* the calls made so far on the engine ("step", "reset")
    twin,         \* a second engine built from the same Settings and seed
    last,         \* the Environment call made last: its arguments and the state before it
    origin        \* the engine as construction left it, the stream position the
                  \* last reset() started from, and for every agent how many
                  \* step() calls of the run had returned when the call that
                  \* created it did, and where the agents were at the last tick
                  \* boundary (observation only)

vars == <<settings, grid, humidity, fertility, biome, orcs, population, tick, next_id,
          randoms, raised, pc, order, event, calls, twin, last, origin>>

---------------------------------------------------------------------------
(* Bounds of the model *)

GridW == 3
GridH == 3
MaxSeed == 7
MaxCalls == 3
MaxEnvCalls == 3
PoolSize == 2
MaxCells == 6
MaxClasses == 4

---------------------------------------------------------------------------
(* Evaluation helpers.  Bind(v, F) is F(v) with v computed once; Table(f)  *)
(* is the function f with all its values computed.                         *)

Bind(v, F(_)) == CHOOSE r \in {F(x) : x \in {v}} : TRUE

Table(f) == f @@ <<>>

---------------------------------------------------------------------------
(* Fixed-point arithmetic *)

SCALE == 10 ^ 4

Mul(a, b) == (a * b) \div SCALE

Max(a, b) == IF a >= b THEN a ELSE b

Min(a, b) == IF a <= b THEN a ELSE b

Abs(a) == IF a >= 0 THEN a ELSE -a

\* f[1] + ... + f[k]
RECURSIVE SumTo(_, _)
SumTo(f, k) == IF k = 0 THEN 0 ELSE f[k] + SumTo(f, k - 1)

\* floor of the square root of n: the largest r in lo..hi with r * r <= n
RECURSIVE ISqrtIn(_, _, _)
ISqrtIn(n, lo, hi) ==
    IF lo >= hi THEN lo
    ELSE Bind((lo + hi + 1) \div 2,
              LAMBDA mid : IF mid * mid <= n THEN ISqrtIn(n, mid, hi)
                           ELSE ISqrtIn(n, lo, mid - 1))

ISqrt(n) == ISqrtIn(n, 0, 46340)

\* sqrt of a small whole number, in fixed point (to 1/1000)
SqrtFix(n) == ISqrt(n * 10 ^ 6) * 10

\* sorted(seq): the k-th smallest is the element with k - 1 elements before it
\* in the order (value, position)
SortedValues(s) ==
    Table([k \in 1..Len(s) |->
        s[CHOOSE i \in 1..Len(s) :
            Cardinality({j \in 1..Len(s) :
                s[j] < s[i] \/ (s[j] = s[i] /\ j < i)}) = k - 1]])

Sorted(seq) == Bind(Table(seq), SortedValues)

\* list.sort(key = score, reverse = True) on <<score, coord>> items: stable, so
\* items of equal score keep their order
SortedByScoreDesc(s) ==
    Table([k \in 1..Len(s) |->
        s[CHOOSE i \in 1..Len(s) :
            Cardinality({j \in 1..Len(s) :
                s[j][1] > s[i][1] \/ (s[j][1] = s[i][1] /\ j < i)}) = k - 1]])

SortDesc(seq) == Bind(Table(seq), SortedByScoreDesc)

---------------------------------------------------------------------------
(* random.Random: a stream state s; a draw made in state s moves the       *)
(* stream to Advance(s) and returns a value computed from Advance(s).      *)

RngModulus == 2 ^ 16

Advance(s) == (s * 25173 + 13849) % RngModulus

\* random.Random(seed): the state the seed determines
Seeded(sd) == (sd * 7919 + 12345) % RngModulus

\* rng.random(): a value in [0, 1)
Random(s) == (Advance(s) * SCALE) \div RngModulus

\* rng.uniform(a, b) == a + (b - a) * random()
Uniform(s, a, b) == a + ((b - a) * Random(s)) \div SCALE

\* randbelow(n), used by shuffle and choice
RandBelow(s, n) == (Advance(s) * n) \div RngModulus

RECURSIVE AdvanceBy(_, _)
AdvanceBy(s, k) == IF k = 0 THEN s ELSE AdvanceBy(Advance(s), k - 1)

Swap(seq, i, j) == [seq EXCEPT ![i] = seq[j], ![j] = seq[i]]

\* rng.shuffle(x): for i in reversed(range(1, len(x))): j = randbelow(i + 1); swap.
\* i is the 1-based position of the element still to be placed.
RECURSIVE ShuffleFrom(_, _, _)
ShuffleFrom(seq, s, i) ==
    IF i <= 1 THEN [list |-> seq, rng |-> s]
    ELSE Bind(Swap(seq, i, RandBelow(s, i) + 1),
              LAMBDA sw : Bind(Advance(s), LAMBDA s1 : ShuffleFrom(sw, s1, i - 1)))

Shuffle(seq, s) == Bind(Table(seq), LAMBDA list : ShuffleFrom(list, s, Len(list)))

\* rng.choice(seq)
Choice(seq, s) == seq[RandBelow(s, Len(seq)) + 1]

---------------------------------------------------------------------------
(* config.py: SimulationSettings with its defaults, in fixed point *)

\* Optional[int]: None is <<>>, the integer n is <<n>>
None == <<>>

DEFAULT_SETTINGS ==
    [grid_width |-> 64, grid_height |-> 40, classes |-> 3,
     initial_orc_ratio |-> 800, max_age |-> 220, base_energy |-> 180000,
     energy_decay |-> 3200, move_cost |-> 5500, fight_reward |-> 26000,
     fight_cost |-> 8000, reproduction_threshold |-> 60000,
     reproduction_chance |-> 1200, reproduction_energy_share |-> 3500,
     reproduction_overpop_pop_threshold |-> 200,
     reproduction_overpop_factor |-> 5000,
     mutation_rate |-> 1500, mutation_scale |-> 2500,
     humidity_penalty |-> 1800, humidity_bonus |-> 1500,
     forage_gain |-> 18000, forage_cost |-> 2500, rest_threshold |-> 55000,
     aggression_bias |-> 4500, herd_radius |-> 3, herd_attraction |-> 5500,
     pair_seek_multiplier |-> 18000, escape_strength_threshold |-> 9500,
     escape_threat_radius |-> 2, escape_threat_weight |-> 6000,
     biome_bonus |-> 1600, biome_penalty |-> 1200, peace_floor_count |-> 4,
     skirmish_threshold |-> 9000, skirmish_cost_factor |-> 7000,
     group_support_bonus |-> 1500, group_support_radius |-> 2,
     loner_grit_bonus |-> 3500, loner_grit_threshold |-> 3,
     support_score_factor |-> 1200,
     virus_spawn_base |-> 2, virus_spawn_stressed |-> 12,
     virus_crowd_threshold |-> 6, virus_crowd_pop_threshold |-> 150,
     virus_crowd_multiplier |-> 50000, virus_spread_chance |-> 400,
     virus_duration |-> 30, virus_energy_penalty |-> 6000,
     virus_fight_penalty |-> 1200, max_population |-> 400,
     overpop_base |-> 400, overpop_scale |-> 1800,
     habitat_seek_radius |-> 4, habitat_seek_bonus |-> 4000,
     habitat_bad_threshold |-> 4800, endangered_threshold |-> 15,
     endangered_repro_bonus |-> 800, endangered_repro_factor |-> 6500,
     kind_strength_mods |-> <<11000, 9000, 10000>>,
     kind_agility_mods |-> <<9500, 11000, 10000>>,
     kind_resilience_mods |-> <<10000, 9500, 11000>>,
     seed |-> None]

---------------------------------------------------------------------------
(* orc.py: the Orc dataclass *)

Orc(id, position, kind, strength, agility, resilience, energy) ==
    [id |-> id, position |-> position, kind |-> kind, strength |-> strength,
     agility |-> agility, resilience |-> resilience, energy |-> energy,
     age |-> 0, infected |-> FALSE, infection_timer |-> 0]

---------------------------------------------------------------------------
(* environment.py.  E is the engine (or a bare Environment with the Orc    *)
(* objects of its client): a record of the fields below.                   *)

Coords(S) == (0..(S.grid_width - 1)) \X (0..(S.grid_height - 1))

\* the cells in the order of "for row in layer for v in row"
RowMajor(S) ==
    Table([k \in 1..(S.grid_width * S.grid_height) |->
             <<(k - 1) % S.grid_width, (k - 1) \div S.grid_width>>])

in_bounds(E, x, y) ==
    0 <= x /\ x < E.settings.grid_width /\ 0 <= y /\ y < E.settings.grid_height

get(E, c) == E.grid[c]

\* A faulty variant of SetPosition: the Orc object keeps the position it had.
KeepPosition(E, id, c) == E

SetPosition(E, id, c) ==
    [E EXCEPT !.orcs = [@ EXCEPT ![id] = [@ EXCEPT !.position = c]]]

\* A faulty variant of place: the cell is taken whoever holds it.
PlaceOver(E, id, x, y) ==
    IF ~in_bounds(E, x, y)
    THEN [E EXCEPT !.raised = "ValueError: Position out of bounds"]
    ELSE [E EXCEPT !.grid = [@ EXCEPT ![<<x, y>>] = id],
                   !.orcs = [@ EXCEPT ![id] = [@ EXCEPT !.position = <<x, y>>]]]

place(E, id, x, y) ==
    IF ~in_bounds(E, x, y)
    THEN [E EXCEPT !.raised = "ValueError: Position out of bounds"]
    ELSE IF E.grid[<<x, y>>] # 0
    THEN [E EXCEPT !.raised = "ValueError: Cell already occupied"]
    ELSE SetPosition([E EXCEPT !.grid = [@ EXCEPT ![<<x, y>>] = id]], id, <<x, y>>)

\* A faulty variant of move: the source cell keeps the agent.
MoveCopy(E, id, dest) ==
    IF ~in_bounds(E, dest[1], dest[2]) THEN E
    ELSE IF E.grid[dest] = 0
    THEN [E EXCEPT !.grid = [@ EXCEPT ![dest] = id],
                   !.orcs = [@ EXCEPT ![id] = [@ EXCEPT !.position = dest]]]
    ELSE E

move(E, id, dest) ==
    IF ~in_bounds(E, dest[1], dest[2]) THEN E
    ELSE IF E.grid[dest] = 0
    THEN SetPosition(
            [E EXCEPT !.grid =
                [[@ EXCEPT ![E.orcs[id].position] = 0] EXCEPT ![dest] = id]],
            id, dest)
    ELSE E

\* A faulty variant of remove: the cell is emptied whoever holds it.
RemoveUnguarded(E, id) == [E EXCEPT !.grid = [@ EXCEPT ![E.orcs[id].position] = 0]]

remove(E, id) ==
    IF E.grid[E.orcs[id].position] = id
    THEN [E EXCEPT !.grid = [@ EXCEPT ![E.orcs[id].position] = 0]]
    ELSE E

\* A faulty variant of neighbors: a diagonal cell in place of the cell above.
NeighborsDiagonal(E, x, y) ==
    SelectSeq(<<(<<x + 1, y>>), (<<x - 1, y>>), (<<x, y + 1>>), (<<x - 1, y - 1>>)>>,
              LAMBDA c : in_bounds(E, c[1], c[2]))

neighbors(E, x, y) ==
    SelectSeq(<<(<<x + 1, y>>), (<<x - 1, y>>), (<<x, y + 1>>), (<<x, y - 1>>)>>,
              LAMBDA c : in_bounds(E, c[1], c[2]))

empty_neighbors(E, x, y) ==
    SelectSeq(neighbors(E, x, y), LAMBDA c : get(E, c) = 0)

occupied_neighbors(E, x, y) ==
    SelectSeq(neighbors(E, x, y), LAMBDA c : get(E, c) # 0)

\* the offsets of the two loops "for dy in (-1, 0, 1): for dx in (-1, 0, 1)",
\* (0, 0) skipped
Offsets8 ==
    <<(<<-1, -1>>), (<<0, -1>>), (<<1, -1>>), (<<-1, 0>>), (<<1, 0>>),
      (<<-1, 1>>), (<<0, 1>>), (<<1, 1>>)>>

smooth(S, layer) ==
    Table([c \in Coords(S) |->
        LET inside == [k \in 1..8 |->
                         0 <= c[1] + Offsets8[k][1] /\ c[1] + Offsets8[k][1] < S.grid_width
                         /\ 0 <= c[2] + Offsets8[k][2]
                         /\ c[2] + Offsets8[k][2] < S.grid_height]
            count == Cardinality({k \in 1..8 : inside[k]})
            weight_per_neighbor == 5000 \div Max(1, count)
            acc == Mul(layer[c], 5000)
                   + SumTo([k \in 1..8 |->
                              IF inside[k]
                              THEN Mul(layer[<<c[1] + Offsets8[k][1],
                                               c[2] + Offsets8[k][2]>>],
                                       weight_per_neighbor)
                              ELSE 0], 8)
        IN  IF count # 0 THEN acc ELSE layer[c]])

RECURSIVE SmoothPasses(_, _, _)
SmoothPasses(S, layer, n) ==
    IF n <= 0 THEN layer
    ELSE Bind(smooth(S, layer), LAMBDA smoothed : SmoothPasses(S, smoothed, n - 1))

\* The noisy layer before smoothing: one draw per cell, row by row.
NoiseLayer(S, s, bias, variation, vertical_pull) ==
    Table([c \in Coords(S) |->
        LET gradient == (c[2] * SCALE) \div Max(1, S.grid_height - 1)
            base == bias + Mul(vertical_pull, gradient - 5000)
        IN  base + Uniform(AdvanceBy(s, c[2] * S.grid_width + c[1]),
                           -variation, variation)])

\* Returns the layer and the stream after the width * height draws.
generate_layer(S, s, bias, variation, vertical_pull, smooth_passes) ==
    Bind(SmoothPasses(S, NoiseLayer(S, s, bias, variation, vertical_pull),
                      smooth_passes),
         LAMBDA smoothed :
            [layer |-> Table([c \in Coords(S) |-> Max(0, Min(SCALE, smoothed[c]))]),
             rng |-> AdvanceBy(s, S.grid_width * S.grid_height)])

\* _generate_biomes after the noise layer: the class of each value of the
\* flattened layer, from the two cutoffs sorted_vals[third], sorted_vals[2 * third].
biome_classes(flat) ==
    Bind(Sorted(flat), LAMBDA sorted_vals :
        LET third == Len(sorted_vals) \div 3
            t1 == sorted_vals[third + 1]
            t2 == sorted_vals[2 * third + 1]
        IN  Table([k \in 1..Len(flat) |->
                     IF flat[k] < t1 THEN 0 ELSE IF flat[k] < t2 THEN 1 ELSE 2]))

\* _generate_biomes after the noise layer is drawn: the layer of the classes
classify(S, noise) ==
    Bind(Table([k \in 1..(S.grid_width * S.grid_height) |-> noise[RowMajor(S)[k]]]),
         LAMBDA flat :
            Bind(biome_classes(flat), LAMBDA classes :
                Table([c \in Coords(S) |-> classes[c[2] * S.grid_width + c[1] + 1]])))

generate_biomes(S, s) ==
    Bind(generate_layer(S, s, 5000, 3500, 0, 3), LAMBDA noise :
        [layer |-> classify(S, noise.layer), rng |-> noise.rng])

\* Environment.__init__: an empty grid and the three layers, drawn in this order.
NewEnvironment(S, s) ==
    Bind(generate_layer(S, s, 5500, 2200, -2000, 4), LAMBDA hum :
      Bind(generate_layer(S, hum.rng, 5000, 2400, 1600, 4), LAMBDA fer :
        Bind(generate_biomes(S, fer.rng), LAMBDA bio :
            [grid |-> Table([c \in Coords(S) |-> 0]), humidity |-> hum.layer,
             fertility |-> fer.layer, biome |-> bio.layer, rng |-> bio.rng])))

---------------------------------------------------------------------------
(* orc.py: the methods of Orc, on the Orc object orcs[id] *)

UpdateOrc(E, id, orc) == [E EXCEPT !.orcs = [@ EXCEPT ![id] = orc]]

\* A faulty variant of Orc.tick: the energy decays and the age stays.
TickWithoutAging(E, id, energy_decay) ==
    [E EXCEPT !.orcs = [@ EXCEPT ![id] = [@ EXCEPT !.energy = @ - energy_decay]]]

Orc_tick(E, id, energy_decay) ==
    [E EXCEPT !.orcs = [@ EXCEPT ![id] =
        [@ EXCEPT !.age = @ + 1, !.energy = @ - energy_decay]]]

adjust_energy(E, id, delta) ==
    [E EXCEPT !.orcs = [@ EXCEPT ![id] = [@ EXCEPT !.energy = @ + delta]]]

fitness(orc) ==
    Mul(orc.strength, 11000) + Mul(orc.agility, 9000) + Mul(orc.resilience, 8000)

infect(E, id, duration) ==
    [E EXCEPT !.orcs = [@ EXCEPT ![id] =
        [@ EXCEPT !.infected = TRUE, !.infection_timer = Max(duration, 1)]]]

\* mutate(value) inside clone_with_mutation: one draw, and a second when it mutates
mutate(value, s, mutation_rate, mutation_scale) ==
    IF Random(s) < mutation_rate
    THEN [value |-> Max(1000, value + Uniform(Advance(s), -mutation_scale, mutation_scale)),
          rng |-> Advance(Advance(s))]
    ELSE [value |-> value, rng |-> Advance(s)]

\* A faulty variant of clone_with_mutation: the child keeps the id of its parent.
CloneKeepingId(orc, s, mutation_rate, mutation_scale, new_id) ==
    [orc |-> [orc EXCEPT !.energy = Mul(@, 6000), !.age = 0, !.infected = FALSE,
                         !.infection_timer = 0],
     rng |-> AdvanceBy(s, 3)]

\* A faulty variant of clone_with_mutation: the child is of the kind after its
\* parent's.
CloneOfNextKind(orc, s, mutation_rate, mutation_scale, new_id) ==
    Bind(mutate(orc.strength, s, mutation_rate, mutation_scale), LAMBDA st :
      Bind(mutate(orc.agility, st.rng, mutation_rate, mutation_scale), LAMBDA ag :
        Bind(mutate(orc.resilience, ag.rng, mutation_rate, mutation_scale), LAMBDA re :
            [orc |-> Orc(new_id, orc.position, (orc.kind + 1) % 3, st.value, ag.value,
                         re.value, Mul(orc.energy, 6000)),
             rng |-> re.rng])))

\* Returns the child and the stream after the draws.
clone_with_mutation(orc, s, mutation_rate, mutation_scale, new_id) ==
    Bind(mutate(orc.strength, s, mutation_rate, mutation_scale), LAMBDA st :
      Bind(mutate(orc.agility, st.rng, mutation_rate, mutation_scale), LAMBDA ag :
        Bind(mutate(orc.resilience, ag.rng, mutation_rate, mutation_scale), LAMBDA re :
            [orc |-> Orc(new_id, orc.position, orc.kind, st.value, ag.value, re.value,
                         Mul(orc.energy, 6000)),
             rng |-> re.rng])))

---------------------------------------------------------------------------
(* simulation.py: construction and reset *)

\* What the last processing of an agent did (an observation, not program state).
\* What a call of _maybe_reproduce was seen to do: the values of its locals, and
\* population, grid, _next_id and the energy of the agent before and after it.
NoAttempt ==
    [called |-> FALSE, ret |-> FALSE, threshold |-> 0, chance |-> 0,
     before |-> <<>>, after |-> <<>>]

NoEvent ==
    [id |-> 0, outcome |-> "none", action |-> "none", fight |-> "none",
     before |-> {}, heap |-> {}, challenger |-> 0, defender |-> 0, winner |-> 0, loser |-> 0,
     scores |-> <<0, 0>>, child |-> 0, dest |-> <<>>, parent_energy |-> 0,
     move_failed |-> FALSE, stages |-> <<>>, at_cull |-> -1, repro |-> NoAttempt,
     timer |-> 0]

\* A faulty variant of _kind_for_biome: the biome class itself is the kind.
KindIsBiome(S, b) == b

kind_for_biome(S, b) == b % Max(1, S.classes)

apply_kind_modifiers(S, orc) ==
    LET idx == orc.kind % Max(1, Len(S.kind_strength_mods))
    IN  [orc EXCEPT !.strength = Mul(@, S.kind_strength_mods[idx + 1]),
                    !.agility = Mul(@, S.kind_agility_mods[idx + 1]),
                    !.resilience = Mul(@, S.kind_resilience_mods[idx + 1])]

spawn_orc(E, position) ==
    Bind(Orc(E.next_id, position, kind_for_biome(E.settings, E.biome[position]),
             Uniform(E.rng, 5000, 15000),
             Uniform(Advance(E.rng), 5000, 15000),
             Uniform(Advance(Advance(E.rng)), 5000, 15000),
             E.settings.base_energy),
         LAMBDA orc :
            Bind([E EXCEPT !.rng = Advance(Advance(Advance(@))), !.next_id = @ + 1,
                           !.orcs = @ @@ (orc.id :> apply_kind_modifiers(E.settings, orc)),
                           !.population = @ \cup {orc.id}],
                 LAMBDA E1 : place(E1, orc.id, position[1], position[2])))

\* for x, y in coords[:target]: self._spawn_orc((x, y)), from the k-th on
RECURSIVE SpawnAll(_, _, _)
SpawnAll(E, coords, k) ==
    IF k > Len(coords) \/ E.raised # "" THEN E
    ELSE Bind(spawn_orc(E, coords[k]), LAMBDA E1 : SpawnAll(E1, coords, k + 1))

seed_initial_population(E) ==
    LET S == E.settings
        capacity == S.grid_width * S.grid_height
        target == (capacity * S.initial_orc_ratio) \div SCALE
    IN  Bind(Shuffle(Table([k \in 1..capacity |->
                              <<(k - 1) \div S.grid_height, (k - 1) % S.grid_height>>]),
                     E.rng),
             LAMBDA sh :
                Bind([E EXCEPT !.rng = sh.rng], LAMBDA E1 :
                  Bind(SubSeq(sh.list, 1, Min(target, capacity)), LAMBDA chosen :
                    SpawnAll(E1, chosen, 1))))

\* Simulation.__init__ given the state of the Random object it is handed
Construct(S, s) ==
    Bind(NewEnvironment(S, s), LAMBDA env :
      Bind([settings |-> S, grid |-> env.grid, humidity |-> env.humidity,
            fertility |-> env.fertility, biome |-> env.biome, orcs |-> <<>>,
            population |-> {},
            tick |-> 0, next_id |-> 1, rng |-> env.rng, raised |-> "",
            event |-> NoEvent],
           seed_initial_population))

\* A faulty variant of reset: the tick counter is left as it is.
ResetKeepingTick(E) ==
    [Construct(E.settings, E.rng) EXCEPT !.tick = E.tick, !.event = E.event]

reset(E) ==
    Bind(NewEnvironment(E.settings, E.rng), LAMBDA env :
      Bind([E EXCEPT !.grid = env.grid, !.humidity = env.humidity,
                     !.fertility = env.fertility, !.biome = env.biome,
                     !.rng = env.rng, !.orcs = <<>>, !.population = {},
                     !.tick = 0, !.next_id = 1],
           seed_initial_population))

---------------------------------------------------------------------------
(* simulation.py: helpers of the per-tick pipeline *)

\* the in-bounds cells of the square of the given radius around c (c included)
Window(E, c, radius) ==
    {d \in Coords(E.settings) : Abs(d[1] - c[1]) <= radius /\ Abs(d[2] - c[2]) <= radius}

\* the same cells in scan order: for y in range(..): for x in range(..)
WindowSeq(E, c, radius) ==
    SelectSeq(RowMajor(E.settings),
              LAMBDA d : Abs(d[1] - c[1]) <= radius /\ Abs(d[2] - c[2]) <= radius)

kind_count(E, kind) == Cardinality({i \in E.population : E.orcs[i].kind = kind})

\* A faulty variant of _biome_effect: the cycle is as long as the number of classes.
BiomeEffectByClasses(S, kind, b) ==
    IF b = kind THEN <<S.biome_bonus, 0>>
    ELSE IF (b + 1) % S.classes = kind THEN <<0, 0>>
    ELSE <<0, S.biome_penalty>>

biome_effect(S, kind, b) ==
    IF b = kind THEN <<S.biome_bonus, 0>>
    ELSE IF (b + 1) % 3 = kind THEN <<0, 0>>
    ELSE <<0, S.biome_penalty>>

biome_move_bonus(S, kind, b) ==
    biome_effect(S, kind, b)[1] - Mul(biome_effect(S, kind, b)[2], 7000)

\* <<friends, foes>>
social_counts(E, id) ==
    LET orc == E.orcs[id]
        others == {d \in Window(E, orc.position, E.settings.group_support_radius) :
                      d # orc.position /\ get(E, d) # 0}
    IN  <<Cardinality({d \in others : E.orcs[get(E, d)].kind = orc.kind}),
          Cardinality({d \in others : E.orcs[get(E, d)].kind # orc.kind})>>

local_support_score(E, id) ==
    LET fr == social_counts(E, id)
        net == fr[1] * SCALE - fr[2] * 6000
    IN  Mul(net, E.settings.support_score_factor)

effective_fitness(E, id) ==
    IF E.orcs[id].infected
    THEN Mul(fitness(E.orcs[id]), Max(2000, SCALE - E.settings.virus_fight_penalty))
    ELSE fitness(E.orcs[id])

env_score(E, kind, c) ==
    Mul(E.humidity[c], 3500) + Mul(E.fertility[c], 5000)
        + biome_move_bonus(E.settings, kind, E.biome[c])

virus_spawn_chance(E, id) ==
    LET S == E.settings
        orc == E.orcs[id]
        penalty == biome_effect(S, orc.kind, E.biome[orc.position])[2]
        base == IF penalty > 0 THEN S.virus_spawn_stressed ELSE S.virus_spawn_base
    IN  IF Cardinality(E.population) >= S.virus_crowd_pop_threshold
           /\ social_counts(E, id)[1] >= S.virus_crowd_threshold
        THEN Mul(base, S.virus_crowd_multiplier)
        ELSE base

is_dead(E, id) == E.orcs[id].energy <= 0 \/ E.orcs[id].age > E.settings.max_age

\* A faulty variant of _remove_orc: the agent leaves population and stays on the grid.
ForgetOrc(E, id) == [E EXCEPT !.population = @ \ {id}]

remove_orc(E, id) == [remove(E, id) EXCEPT !.population = @ \ {id}]

---------------------------------------------------------------------------
(* simulation.py: the stages of step() for one agent *)

\* A faulty variant of _apply_environment_pressure: the biome is left out.
PressureWithoutBiome(E, id) ==
    LET S == E.settings
        h == E.humidity[E.orcs[id].position]
    IN  adjust_energy(E, id, IF h < 4500 THEN -Mul(4500 - h, S.humidity_penalty)
                             ELSE IF h > 6500 THEN Mul(h - 6500, S.humidity_bonus)
                             ELSE 0)

\* The adjustments the three branches make to the energy, added up.
apply_environment_pressure(E, id) ==
    LET S == E.settings
        orc == E.orcs[id]
        h == E.humidity[orc.position]
        eff == biome_effect(S, orc.kind, E.biome[orc.position])
        by_humidity == IF h < 4500 THEN -Mul(4500 - h, S.humidity_penalty)
                       ELSE IF h > 6500 THEN Mul(h - 6500, S.humidity_bonus)
                       ELSE 0
    IN  adjust_energy(E, id, by_humidity + eff[1] - eff[2])

\* The boost and the grit bonus, each when its condition holds, added up.
apply_social_context(E, id) ==
    LET S == E.settings
        fr == social_counts(E, id)
        boost == IF fr[1] >= 2 THEN Min(3, fr[1]) * S.group_support_bonus ELSE 0
        grit == IF fr[2] >= fr[1] + S.loner_grit_threshold THEN S.loner_grit_bonus ELSE 0
    IN  adjust_energy(E, id, boost + grit)

\* A faulty variant of the spread loop: infected neighbours are targets too.
RECURSIVE SpreadToAll(_, _, _)
SpreadToAll(E, coords, k) ==
    IF k > Len(coords) THEN E
    ELSE LET target == get(E, coords[k])
         IN  IF target # 0
             THEN Bind(IF Random(E.rng) < E.settings.virus_spread_chance
                       THEN [infect(E, target, E.settings.virus_duration)
                               EXCEPT !.rng = Advance(@)]
                       ELSE [E EXCEPT !.rng = Advance(@)],
                       LAMBDA E1 : SpreadToAll(E1, coords, k + 1))
             ELSE SpreadToAll(E, coords, k + 1)

\* the spread loop of _apply_disease from the k-th neighbour on: one draw per
\* neighbour that is not infected
RECURSIVE SpreadTo(_, _, _)
SpreadTo(E, coords, k) ==
    IF k > Len(coords) THEN E
    ELSE LET target == get(E, coords[k])
         IN  IF target # 0 /\ ~E.orcs[target].infected
             THEN Bind(IF Random(E.rng) < E.settings.virus_spread_chance
                       THEN [infect(E, target, E.settings.virus_duration)
                               EXCEPT !.rng = Advance(@)]
                       ELSE [E EXCEPT !.rng = Advance(@)],
                       LAMBDA E1 : SpreadTo(E1, coords, k + 1))
             ELSE SpreadTo(E, coords, k + 1)

\* _apply_disease from "orc.infection_timer -= 1" on, for an infected agent
Sicken(E, id) ==
    Bind(UpdateOrc(E, id, [E.orcs[id] EXCEPT
                              !.infection_timer = @ - 1,
                              !.energy = @ - E.settings.virus_energy_penalty]),
         LAMBDA E2 :
            Bind(occupied_neighbors(E2, E2.orcs[id].position[1],
                                    E2.orcs[id].position[2]),
                 LAMBDA nb :
                    Bind(SpreadTo(E2, nb, 1), LAMBDA E3 :
                        IF E3.orcs[id].infection_timer <= 0
                        THEN UpdateOrc(E3, id, [E3.orcs[id] EXCEPT
                                                  !.infected = FALSE,
                                                  !.infection_timer = 0])
                        ELSE E3)))

apply_disease(E, id) ==
    Bind(IF ~E.orcs[id].infected
         THEN IF Random(E.rng) < virus_spawn_chance(E, id)
              THEN [infect(E, id, E.settings.virus_duration) EXCEPT !.rng = Advance(@)]
              ELSE [E EXCEPT !.rng = Advance(@)]
         ELSE E,
         LAMBDA E1 : IF ~E1.orcs[id].infected THEN E1 ELSE Sicken(E1, id))

\* A faulty variant of _overpop_kill_check: a population at the cap is culled too.
OverpopCullAtCap(E, id) ==
    LET S == E.settings
        limit == S.max_population
        current == Cardinality(E.population)
        overload == ((current - limit) * SCALE) \div limit
        chance == Min(7500, S.overpop_base + Mul(overload, S.overpop_scale))
    IN  IF limit <= 0 \/ current < limit THEN [E |-> E, ret |-> FALSE]
        ELSE IF Random(E.rng) < chance
        THEN [E |-> Bind([E EXCEPT !.rng = Advance(@)], LAMBDA E1 : remove_orc(E1, id)),
              ret |-> TRUE]
        ELSE [E |-> [E EXCEPT !.rng = Advance(@)], ret |-> FALSE]

\* Returns the engine and whether the agent was culled.
overpop_kill_check(E, id) ==
    LET S == E.settings
        limit == S.max_population
        current == Cardinality(E.population)
        overload == ((current - limit) * SCALE) \div limit
        chance == Min(7500, S.overpop_base + Mul(overload, S.overpop_scale))
    IN  IF limit <= 0 \/ current <= limit THEN [E |-> E, ret |-> FALSE]
        ELSE IF Random(E.rng) < chance
        THEN [E |-> Bind([E EXCEPT !.rng = Advance(@)], LAMBDA E1 : remove_orc(E1, id)),
              ret |-> TRUE]
        ELSE [E |-> [E EXCEPT !.rng = Advance(@)], ret |-> FALSE]

\* A faulty variant of the birth: the child keeps the energy clone_with_mutation
\* gave it.
GiveBirthCloneEnergy(E, id, empties) ==
    LET S == E.settings
        orc == E.orcs[id]
        dest == Choice(empties, E.rng)
        energy_for_child == Max(20000, Min(S.base_energy,
                                           Mul(orc.energy, S.reproduction_energy_share)))
    IN  Bind(clone_with_mutation(orc, Advance(E.rng), S.mutation_rate,
                                 S.mutation_scale, E.next_id),
             LAMBDA cl :
                Bind([E EXCEPT !.rng = cl.rng, !.next_id = @ + 1,
                               !.orcs = @ @@ (cl.orc.id :> cl.orc),
                               !.population = @ \cup {cl.orc.id},
                               !.event = [@ EXCEPT !.child = cl.orc.id, !.dest = dest,
                                                   !.parent_energy = orc.energy]],
                     LAMBDA E2 :
                        Bind(place(E2, cl.orc.id, dest[1], dest[2]), LAMBDA E3 :
                            adjust_energy(E3, id, -energy_for_child))))

\* _maybe_reproduce from "dest = self.rng.choice(empties)" on; E is the engine
\* after the draw against chance
GiveBirth(E, id, empties) ==
    LET S == E.settings
        orc == E.orcs[id]
        dest == Choice(empties, E.rng)
        energy_for_child == Max(20000, Min(S.base_energy,
                                           Mul(orc.energy, S.reproduction_energy_share)))
    IN  Bind(clone_with_mutation(orc, Advance(E.rng), S.mutation_rate,
                                 S.mutation_scale, E.next_id),
             LAMBDA cl :
                Bind([E EXCEPT !.rng = cl.rng, !.next_id = @ + 1,
                               !.orcs = @ @@ (cl.orc.id :>
                                     [cl.orc EXCEPT !.energy = energy_for_child]),
                               !.population = @ \cup {cl.orc.id},
                               !.event = [@ EXCEPT !.child = cl.orc.id, !.dest = dest,
                                                   !.parent_energy = orc.energy]],
                     LAMBDA E2 :
                        Bind(place(E2, cl.orc.id, dest[1], dest[2]), LAMBDA E3 :
                            adjust_energy(E3, id, -energy_for_child))))

\* What _maybe_reproduce may change: population, grid, _next_id, the agent's energy.
Footprint(E, id) ==
    [population |-> E.population, grid |-> E.grid, next_id |-> E.next_id,
     energy |-> E.orcs[id].energy]

\* A faulty variant of the terms of _maybe_reproduce: a kind counts as
\* endangered only strictly below endangered_threshold.
ReproductionTermsBelow(E, id) ==
    LET S == E.settings
        endangered == kind_count(E, E.orcs[id].kind) < S.endangered_threshold
        threshold == IF endangered
                     THEN Mul(S.reproduction_threshold, S.endangered_repro_factor)
                     ELSE S.reproduction_threshold
        chance0 == IF endangered
                   THEN Min(SCALE, S.reproduction_chance + S.endangered_repro_bonus)
                   ELSE S.reproduction_chance
    IN  [threshold |-> threshold,
         chance |-> IF Cardinality(E.population) >= S.reproduction_overpop_pop_threshold
                    THEN Mul(chance0, S.reproduction_overpop_factor)
                    ELSE chance0]

\* The locals threshold and chance of _maybe_reproduce, as they stand at the
\* test "orc.energy < threshold or rng.random() > chance".
reproduction_terms(E, id) ==
    LET S == E.settings
        endangered == kind_count(E, E.orcs[id].kind) <= S.endangered_threshold
        threshold == IF endangered
                     THEN Mul(S.reproduction_threshold, S.endangered_repro_factor)
                     ELSE S.reproduction_threshold
        chance0 == IF endangered
                   THEN Min(SCALE, S.reproduction_chance + S.endangered_repro_bonus)
                   ELSE S.reproduction_chance
    IN  [threshold |-> threshold,
         chance |-> IF Cardinality(E.population) >= S.reproduction_overpop_pop_threshold
                    THEN Mul(chance0, S.reproduction_overpop_factor)
                    ELSE chance0]

\* A faulty variant of the partner test: any agent next to the parent counts.
AnyoneAdjacent(E, id) ==
    occupied_neighbors(E, E.orcs[id].position[1], E.orcs[id].position[2]) # <<>>

\* ally_adjacent of _maybe_reproduce: some occupied neighbour is of the agent's kind
ally_adjacent(E, id) ==
    LET pos == E.orcs[id].position
        occupied == occupied_neighbors(E, pos[1], pos[2])
    IN  \E k \in 1..Len(occupied) :
            E.orcs[get(E, occupied[k])].kind = E.orcs[id].kind

\* Returns the engine and whether a child was born.
maybe_reproduce(E, id) ==
    LET S == E.settings
        orc == E.orcs[id]
        terms == reproduction_terms(E, id)
        threshold == terms.threshold
        chance == terms.chance
        pos == orc.position
        partner == ally_adjacent(E, id)
        empties == empty_neighbors(E, pos[1], pos[2])
        seen(X, r) ==
            Bind(X, LAMBDA Y :
                [Y EXCEPT !.event = [@ EXCEPT !.repro =
                    [called |-> TRUE, ret |-> r,
                     threshold |-> threshold, chance |-> chance,
                     before |-> Footprint(E, id), after |-> Footprint(Y, id)]]])
    IN  IF orc.energy < threshold THEN [E |-> seen(E, FALSE), ret |-> FALSE]
        ELSE IF Random(E.rng) > chance \/ ~partner \/ empties = <<>>
        THEN [E |-> seen([E EXCEPT !.rng = Advance(@)], FALSE), ret |-> FALSE]
        ELSE [E |-> seen(Bind([E EXCEPT !.rng = Advance(@)], LAMBDA E1 :
                               Bind(empties, LAMBDA em : GiveBirth(E1, id, em))),
                         TRUE),
              ret |-> TRUE]

---------------------------------------------------------------------------
(* simulation.py: the action stage *)

forage(E, id, fert) ==
    LET S == E.settings
        gain == Mul(Mul(S.forage_gain, 4000 + fert), Uniform(E.rng, 6000, 12000))
    IN  [E EXCEPT !.rng = Advance(@),
                  !.orcs = [@ EXCEPT ![id] =
                       [@ EXCEPT !.energy = @ + (gain - S.forage_cost)]]]

\* The coordinate of the neighbour to attack, or <<>> for None.
pick_target(E, id, occupied_nb) ==
    LET orc == E.orcs[id]
        foes == SelectSeq(occupied_nb,
                          LAMBDA c : get(E, c) # 0 /\ E.orcs[get(E, c)].kind # orc.kind)
        candidates == [k \in 1..Len(foes) |->
                         LET target == E.orcs[get(E, foes[k])]
                             advantage == fitness(orc) - fitness(target)
                             energy_gap == Mul(orc.energy - target.energy, 1000)
                         IN  <<advantage + energy_gap, foes[k]>>]
    IN  IF Len(foes) = 0 THEN <<>>
        ELSE Bind(SortDesc(candidates)[1],
                  LAMBDA best : IF best[1] > -3000 THEN best[2] ELSE <<>>)

\* A faulty variant of _should_attack: an endangered kind is attacked like any other.
ShouldAttackEndangered(E, challenger, defender) ==
    LET S == E.settings
        c == E.orcs[challenger]
        d == E.orcs[defender]
        advantage == fitness(c) - fitness(d)
        aggression == S.aggression_bias + Mul(advantage, 1000)
                      + (IF c.energy - d.energy > 20000 THEN 1000 ELSE 0)
    IN  IF c.kind = d.kind THEN [ret |-> FALSE, rng |-> E.rng]
        ELSE IF advantage < -6000 THEN [ret |-> FALSE, rng |-> E.rng]
        ELSE IF kind_count(E, c.kind) <= S.peace_floor_count
        THEN [ret |-> FALSE, rng |-> E.rng]
        ELSE [ret |-> Random(E.rng) < aggression, rng |-> Advance(E.rng)]

\* A faulty variant of _should_attack: a challenger attacks however few its kind.
ShouldAttackFromFloor(E, challenger, defender) ==
    LET S == E.settings
        c == E.orcs[challenger]
        d == E.orcs[defender]
        advantage == fitness(c) - fitness(d)
        aggression == S.aggression_bias + Mul(advantage, 1000)
                      + (IF c.energy - d.energy > 20000 THEN 1000 ELSE 0)
    IN  IF c.kind = d.kind THEN [ret |-> FALSE, rng |-> E.rng]
        ELSE IF advantage < -6000 THEN [ret |-> FALSE, rng |-> E.rng]
        ELSE IF kind_count(E, d.kind) <= S.endangered_threshold
        THEN [ret |-> FALSE, rng |-> E.rng]
        ELSE [ret |-> Random(E.rng) < aggression, rng |-> Advance(E.rng)]

\* Returns the decision and the stream: the draw is made only past the four refusals.
should_attack(E, challenger, defender) ==
    LET S == E.settings
        c == E.orcs[challenger]
        d == E.orcs[defender]
        advantage == fitness(c) - fitness(d)
        aggression == S.aggression_bias + Mul(advantage, 1000)
                      + (IF c.energy - d.energy > 20000 THEN 1000 ELSE 0)
    IN  IF c.kind = d.kind THEN [ret |-> FALSE, rng |-> E.rng]
        ELSE IF advantage < -6000 THEN [ret |-> FALSE, rng |-> E.rng]
        ELSE IF kind_count(E, d.kind) <= S.endangered_threshold
        THEN [ret |-> FALSE, rng |-> E.rng]
        ELSE IF kind_count(E, c.kind) <= S.peace_floor_count
        THEN [ret |-> FALSE, rng |-> E.rng]
        ELSE [ret |-> Random(E.rng) < aggression, rng |-> Advance(E.rng)]

\* A faulty variant of the skirmish branch: the winner is strengthened as in a
\* decisive fight.
SkirmishTraining(E, challenger, defender, winner) ==
    LET S == E.settings
        cost == Mul(S.fight_cost, S.skirmish_cost_factor)
    IN  Bind(adjust_energy(E, challenger, -cost), LAMBDA K0 :
          Bind(adjust_energy(K0, defender, -cost), LAMBDA K1 :
            Bind(UpdateOrc(K1, winner,
                           [K1.orcs[winner] EXCEPT
                              !.energy = @ + Mul(S.fight_reward, 4000),
                              !.strength = @ + 500, !.resilience = @ + 300]),
                 LAMBDA K2 :
              Bind(IF K2.orcs[challenger].energy <= 0 THEN remove_orc(K2, challenger)
                   ELSE K2,
                   LAMBDA K3 :
                      IF K3.orcs[defender].energy <= 0 THEN remove_orc(K3, defender)
                      ELSE K3))))

\* _resolve_fight, the skirmish branch
Skirmish(E, challenger, defender, winner) ==
    LET S == E.settings
        cost == Mul(S.fight_cost, S.skirmish_cost_factor)
    IN  Bind(adjust_energy(E, challenger, -cost), LAMBDA K0 :
          Bind(adjust_energy(K0, defender, -cost), LAMBDA K1 :
            Bind(adjust_energy(K1, winner, Mul(S.fight_reward, 4000)), LAMBDA K2 :
              Bind(IF K2.orcs[challenger].energy <= 0 THEN remove_orc(K2, challenger)
                   ELSE K2,
                   LAMBDA K3 :
                      IF K3.orcs[defender].energy <= 0 THEN remove_orc(K3, defender)
                      ELSE K3))))

\* A faulty variant of the decisive branch: the loser is not removed.
DecisiveSparing(E, winner, loser) ==
    Bind(UpdateOrc(E, winner,
                   [E.orcs[winner] EXCEPT
                      !.energy = @ + (E.settings.fight_reward
                                      - Mul(E.settings.fight_cost, 5000)),
                      !.strength = @ + 500,
                      !.resilience = @ + 300]),
         LAMBDA D1 : IF D1.orcs[winner].energy <= 0 THEN remove_orc(D1, winner) ELSE D1)

\* _resolve_fight, the decisive branch
Decisive(E, winner, loser) ==
    LET S == E.settings
    IN  Bind(remove_orc(E, loser), LAMBDA D0 :
          Bind(UpdateOrc(D0, winner,
                         [D0.orcs[winner] EXCEPT
                            !.energy = @ + (S.fight_reward - Mul(S.fight_cost, 5000)),
                            !.strength = @ + 500,
                            !.resilience = @ + 300]),
               LAMBDA D1 :
                  IF D1.orcs[winner].energy <= 0 THEN remove_orc(D1, winner) ELSE D1))

\* _resolve_fight after the engagement cost, both combatants still standing
Contest(E, challenger, defender) ==
    LET S == E.settings
        challenge_score == effective_fitness(E, challenger)
                           + Uniform(E.rng, -4000, 4000)
                           + local_support_score(E, challenger)
        defense_score == effective_fitness(E, defender)
                         + Uniform(Advance(E.rng), -4000, 4000)
                         + local_support_score(E, defender)
    IN  Bind(<<challenge_score, defense_score>>, LAMBDA sc :
          LET diff == Abs(sc[1] - sc[2])
              winner == IF sc[1] >= sc[2] THEN challenger ELSE defender
              loser == IF sc[1] >= sc[2] THEN defender ELSE challenger
          IN  Bind([E EXCEPT !.rng = Advance(Advance(@)),
                             !.event = [@ EXCEPT !.winner = winner, !.loser = loser,
                                                 !.scores = sc]],
                   LAMBDA E2 :
                      IF diff < S.skirmish_threshold
                      THEN [Skirmish(E2, challenger, defender, winner)
                              EXCEPT !.event = [@ EXCEPT !.fight = "skirmish"]]
                      ELSE [Decisive(E2, winner, loser)
                              EXCEPT !.event = [@ EXCEPT !.fight = "decisive"]]))

resolve_fight(E, challenger, defender) ==
    IF defender \notin E.population \/ challenger \notin E.population
    THEN [E EXCEPT !.event = [@ EXCEPT !.fight = "absent"]]
    ELSE Bind([E EXCEPT
                 !.event = [@ EXCEPT !.before = E.population,
                                     !.heap = DOMAIN E.orcs,
                                     !.challenger = challenger,
                                     !.defender = defender],
                 !.orcs = [@ EXCEPT
                     ![challenger] = [@ EXCEPT
                         !.energy = @ - Mul(E.settings.fight_cost, 5000)],
                     ![defender] = [@ EXCEPT
                         !.energy = @ - Mul(E.settings.fight_cost, 5000)]]],
              LAMBDA E1 :
                 IF E1.orcs[challenger].energy <= 0
                 THEN [remove_orc(E1, challenger)
                         EXCEPT !.event = [@ EXCEPT !.fight = "engage"]]
                 ELSE IF E1.orcs[defender].energy <= 0
                 THEN [remove_orc(E1, defender)
                         EXCEPT !.event = [@ EXCEPT !.fight = "engage"]]
                 ELSE Contest(E1, challenger, defender))

\* the scan of _seek_habitat_direction from the k-th cell on: the last cell that
\* beats the best so far by more than 0.05, or <<>> for None
RECURSIVE SeekBest(_, _, _, _, _, _)
SeekBest(E, kind, cells, k, best_score, best_coord) ==
    IF k > Len(cells) THEN best_coord
    ELSE Bind(env_score(E, kind, cells[k]), LAMBDA score :
            IF score > best_score + 500
            THEN SeekBest(E, kind, cells, k + 1, score, cells[k])
            ELSE SeekBest(E, kind, cells, k + 1, best_score, best_coord))

\* <<dx, dy>> towards the better habitat, or <<>> for None
seek_habitat_direction(E, id, current_score) ==
    LET radius == E.settings.habitat_seek_radius
        orc == E.orcs[id]
    IN  IF radius <= 0 THEN <<>>
        ELSE Bind(WindowSeq(E, orc.position, radius), LAMBDA cells :
               Bind(SeekBest(E, orc.kind, cells, 1, current_score, <<>>),
                    LAMBDA best_coord :
                       IF best_coord = <<>> THEN <<>>
                       ELSE <<best_coord[1] - orc.position[1],
                              best_coord[2] - orc.position[2]>>))

herd_bonus(E, id, c) ==
    LET radius == E.settings.herd_radius
        total == Cardinality({d \in Window(E, c, radius) :
                                get(E, d) # 0 /\ E.orcs[get(E, d)].kind = E.orcs[id].kind})
    IN  IF radius <= 0 THEN 0
        ELSE total * (E.settings.herd_attraction \div Max(1, radius * radius))

threat_penalty(E, id, c) ==
    LET radius == E.settings.escape_threat_radius
        enemies == Cardinality({d \in Window(E, c, radius) :
                                  d # c /\ get(E, d) # 0
                                  /\ E.orcs[get(E, d)].kind # E.orcs[id].kind})
    IN  IF radius <= 0 THEN 0 ELSE enemies * E.settings.escape_threat_weight

\* the desirability of the k-th empty neighbour c, drawn with the k-th draw
Desirability(E, id, c, k, current_score, target_vec) ==
    LET S == E.settings
        orc == E.orcs[id]
        pos == orc.position
        occupied == occupied_neighbors(E, pos[1], pos[2])
        friends_adjacent == \E j \in 1..Len(occupied) :
                               E.orcs[get(E, occupied[j])].kind = orc.kind
        low_pop == kind_count(E, orc.kind) <= S.endangered_threshold
        low_strength == orc.strength <= S.escape_strength_threshold
        base == env_score(E, orc.kind, c)
        herd == IF friends_adjacent THEN herd_bonus(E, id, c)
                ELSE Mul(herd_bonus(E, id, c), S.pair_seek_multiplier)
        threat == IF low_pop /\ low_strength THEN threat_penalty(E, id, c) ELSE 0
        dx == c[1] - pos[1]
        dy == c[2] - pos[2]
        dot == dx * target_vec[1] + dy * target_vec[2]
        norm == Max(10, Mul(SqrtFix(dx * dx + dy * dy),
                            SqrtFix(target_vec[1] * target_vec[1]
                                    + target_vec[2] * target_vec[2])))
        align == Max(0, (dot * SCALE * SCALE) \div norm)
        seek == IF target_vec # <<>> THEN Mul(S.habitat_seek_bonus, align) ELSE 0
        pull == IF current_score < S.habitat_bad_threshold
                THEN Mul(base - current_score, 8000) ELSE 0
        jitter == Uniform(AdvanceBy(E.rng, k - 1), -1000, 1000)
    IN  base + herd - threat + seek + pull + jitter

\* A faulty variant of _choose_move_target: the first neighbouring cell is
\* chosen, empty or not.
ChooseFirstNeighbour(E, id, empties) ==
    [dest |-> neighbors(E, E.orcs[id].position[1], E.orcs[id].position[2])[1],
     rng |-> AdvanceBy(E.rng, Len(empties) + 1)]

\* Returns the destination and the stream: one draw per empty cell, one for the choice.
choose_move_target(E, id, empties) ==
    Bind(env_score(E, E.orcs[id].kind, E.orcs[id].position), LAMBDA current_score :
      Bind(seek_habitat_direction(E, id, current_score), LAMBDA target_vec :
        Bind(SortDesc([k \in 1..Len(empties) |->
                         <<Desirability(E, id, empties[k], k, current_score, target_vec),
                           empties[k]>>]),
             LAMBDA weighted :
                LET top == SubSeq(weighted, 1, Min(3, Len(weighted)))
                    s == AdvanceBy(E.rng, Len(empties))
                IN  [dest |-> Choice(top, s)[2], rng |-> Advance(s)])))

\* _take_action from "if empties:" on, the agent not fighting
MoveOrStay(E, id, empties, fertility_here) ==
    LET S == E.settings
    IN  IF empties # <<>>
        THEN Bind(choose_move_target(E, id, empties), LAMBDA mv :
               Bind([E EXCEPT !.rng = mv.rng], LAMBDA M0 :
                 Bind(move(M0, id, mv.dest), LAMBDA M1 :
                   Bind([adjust_energy(M1, id, -S.move_cost) EXCEPT
                           !.event = [@ EXCEPT
                               !.action = "move", !.dest = mv.dest,
                               !.move_failed = (M1.orcs[id].position # mv.dest)]],
                        LAMBDA M2 :
                           IF M2.orcs[id].energy < S.rest_threshold
                           THEN IF Random(M2.rng) < 3500
                                THEN Bind([M2 EXCEPT !.rng = Advance(@)], LAMBDA M3 :
                                        forage(M3, id, M3.fertility[mv.dest]))
                                ELSE [M2 EXCEPT !.rng = Advance(@)]
                           ELSE M2))))
        ELSE IF Random(E.rng) < 4000
        THEN Bind([E EXCEPT !.rng = Advance(@),
                            !.event = [@ EXCEPT !.action = "forage"]],
                  LAMBDA F : forage(F, id, fertility_here))
        ELSE [E EXCEPT !.rng = Advance(@), !.event = [@ EXCEPT !.action = "rest"]]

\* _take_action from "target_coord = self._pick_target(orc, occupied)" on
FightOrMove(E, id, occupied, empties, fertility_here) ==
    Bind(pick_target(E, id, occupied), LAMBDA target_coord :
      Bind(IF target_coord = <<>> THEN 0 ELSE get(E, target_coord), LAMBDA target :
        IF target = 0 THEN MoveOrStay(E, id, empties, fertility_here)
        ELSE Bind(should_attack(E, id, target), LAMBDA attack :
               Bind([E EXCEPT !.rng = attack.rng], LAMBDA E2 :
                 IF attack.ret
                 THEN Bind([E2 EXCEPT !.event = [@ EXCEPT !.action = "fight"]],
                           LAMBDA F : resolve_fight(F, id, target))
                 ELSE MoveOrStay(E2, id, empties, fertility_here)))))

take_action(E, id) ==
    LET S == E.settings
        pos == E.orcs[id].position
        fertility_here == E.fertility[pos]
        low_energy == E.orcs[id].energy < S.rest_threshold
    IN  Bind(occupied_neighbors(E, pos[1], pos[2]), LAMBDA occupied :
          Bind(empty_neighbors(E, pos[1], pos[2]), LAMBDA empties :
            IF low_energy
            THEN IF Random(E.rng) < 5500
                 THEN Bind([E EXCEPT !.rng = Advance(@),
                                     !.event = [@ EXCEPT !.action = "forage"]],
                           LAMBDA F : forage(F, id, fertility_here))
                 ELSE Bind([E EXCEPT !.rng = Advance(@)], LAMBDA E1 :
                         FightOrMove(E1, id, occupied, empties, fertility_here))
            ELSE FightOrMove(E, id, occupied, empties, fertility_here)))

\* The engine with a stage of the loop body noted in the observation.
Stage(E, name) == [E EXCEPT !.event = [@ EXCEPT !.stages = Append(@, name)]]

\* The engine with the outcome of the agent's turn noted in the observation.
Outcome(E, name) == [E EXCEPT !.event = [@ EXCEPT !.outcome = name]]

\* The k-th statement of the loop body of step() for the agent id: the engine
\* after it, and whether the turn goes on to the next statement (no "continue").
Statement(E, id, k) ==
    CASE k = 1 ->
            [E |-> Stage(Orc_tick(E, id, E.settings.energy_decay), "tick"), on |-> TRUE]
      [] k = 2 ->
            [E |-> Stage(apply_environment_pressure(E, id), "pressure"), on |-> TRUE]
      [] k = 3 ->
            [E |-> Stage(apply_social_context(E, id), "social"), on |-> TRUE]
      [] k = 4 ->
            [E |-> Stage(apply_disease(E, id), "disease"), on |-> TRUE]
      [] k = 5 ->
            Bind(overpop_kill_check(
                    [Stage(E, "cull") EXCEPT
                        !.event = [@ EXCEPT !.at_cull = Cardinality(E.population)]], id),
                 LAMBDA cull :
                    [E |-> IF cull.ret THEN Outcome(cull.E, "culled") ELSE cull.E,
                     on |-> ~cull.ret])
      [] k = 6 ->
            IF is_dead(E, id)
            THEN [E |-> Outcome(remove_orc(Stage(E, "death"), id), "dead"), on |-> FALSE]
            ELSE [E |-> Stage(E, "death"), on |-> TRUE]
      [] k = 7 ->
            Bind(maybe_reproduce(Stage(E, "reproduce"), id), LAMBDA birth :
                    [E |-> IF birth.ret THEN Outcome(birth.E, "reproduced") ELSE birth.E,
                     on |-> ~birth.ret])
      [] k = 8 ->
            [E |-> take_action(Outcome(Stage(E, "action"), "acted"), id), on |-> FALSE]

\* A faulty variant of the loop body: an agent that reproduced goes on to act.
RECURSIVE TurnActingAfterBirth(_, _, _)
TurnActingAfterBirth(E, id, k) ==
    Bind(Statement(E, id, k), LAMBDA r :
        IF r.on \/ k = 7 THEN TurnActingAfterBirth(r.E, id, k + 1) ELSE r.E)

\* The body of the for loop of step() from its k-th statement on
RECURSIVE Turn(_, _, _)
Turn(E, id, k) ==
    Bind(Statement(E, id, k), LAMBDA r : IF r.on THEN Turn(r.E, id, k + 1) ELSE r.E)

\* The body of the for loop of step() for one agent of the snapshot.
process(E, id) ==
    IF id \notin E.population
    THEN [E EXCEPT !.event = [NoEvent EXCEPT !.id = id, !.outcome = "skipped"]]
    ELSE Turn([E EXCEPT !.event = [NoEvent EXCEPT
                  !.id = id, !.timer = E.orcs[id].infection_timer]], id, 1)

\* list(self.population.values()): the agents in insertion order, which is the
\* order of their ids
Ascending(ids) ==
    Table([k \in 1..Cardinality(ids) |->
             CHOOSE m \in ids : Cardinality({i \in ids : i < m}) = k - 1])

\* the for loop of step() from the k-th agent of the order on
RECURSIVE ProcessAll(_, _, _)
ProcessAll(E, ids, k) ==
    IF k > Len(ids) THEN E
    ELSE Bind(process(E, ids[k]), LAMBDA E1 : ProcessAll(E1, ids, k + 1))

\* step() as a whole
step(E) ==
    Bind(Shuffle(Ascending(E.population), E.rng), LAMBDA sh :
      Bind([E EXCEPT !.rng = sh.rng], LAMBDA E0 :
        Bind(ProcessAll(E0, sh.list, 1), LAMBDA E1 : [E1 EXCEPT !.tick = @ + 1])))

---------------------------------------------------------------------------
(* simulation.py: the read accessors *)

\* A faulty variant of metrics: every agent created since construction or
\* reset is counted, the removed ones too.
MetricsOfCreated(E) ==
    LET pop == Ascending(DOMAIN E.orcs)
        count == Len(pop)
        total(field(_)) == SumTo(Table([k \in 1..count |-> field(E.orcs[pop[k]])]), count)
    IN  IF count = 0
        THEN [tick |-> E.tick, population |-> 0, average_strength |-> 0,
              average_agility |-> 0, average_resilience |-> 0]
        ELSE [tick |-> E.tick, population |-> count,
              average_strength |-> total(LAMBDA o : o.strength) \div count,
              average_agility |-> total(LAMBDA o : o.agility) \div count,
              average_resilience |-> total(LAMBDA o : o.resilience) \div count]

metrics(E) ==
    LET pop == Ascending(E.population)
        count == Len(pop)
        total(field(_)) == SumTo(Table([k \in 1..count |-> field(E.orcs[pop[k]])]), count)
    IN  IF count = 0
        THEN [tick |-> E.tick, population |-> 0, average_strength |-> 0,
              average_agility |-> 0, average_resilience |-> 0]
        ELSE [tick |-> E.tick, population |-> count,
              average_strength |-> total(LAMBDA o : o.strength) \div count,
              average_agility |-> total(LAMBDA o : o.agility) \div count,
              average_resilience |-> total(LAMBDA o : o.resilience) \div count]

\* the list of counts; counts[idx] of the code is the element idx + 1 here
counts_by_kind(E) ==
    LET n == Max(1, E.settings.classes)
    IN  Table([k \in 1..n |->
                 Cardinality({i \in E.population : E.orcs[i].kind % n = k - 1})])

---------------------------------------------------------------------------
(* The engines of the process and their Random objects *)

\* A faulty variant of RngOf: every engine draws from the Random object 1.
RngShared(e) == 1

\* Simulation.__init__: self.rng = rng or random.Random(settings.seed).  Each
\* engine draws from a Random object of its own: engine e from the object e.
RngOf(e) == e

\* random.Random(settings.seed): the state the seed determines, or, the seed
\* being None, a state taken from the entropy of the system
NewRandom(seed, entropy) == IF seed = None THEN entropy ELSE Seeded(seed[1])

\* what the system may hand out as entropy
Entropy == {Seeded(MaxSeed + 1), Seeded(MaxSeed + 2)}

\* The Settings the engines are run under: the defaults of config.py on a small
\* grid, dense enough for agents to meet, with the population thresholds scaled
\* to it.
SmallSettings ==
    [DEFAULT_SETTINGS EXCEPT
        !.grid_width = GridW, !.grid_height = GridH,
        !.initial_orc_ratio = 6700, !.max_age = 2, !.base_energy = 65000,
        !.max_population = 6, !.endangered_threshold = 1, !.peace_floor_count = 1,
        !.reproduction_chance = 5000, !.habitat_seek_radius = 2,
        !.virus_spawn_base = 1000, !.virus_spawn_stressed = 3000,
        !.virus_duration = 2, !.virus_spread_chance = 3000]

\* The same with fights that cost more than they pay and agents that always
\* attack, so that combatants die of the fight itself.
HarshSettings ==
    [SmallSettings EXCEPT
        !.base_energy = 60000, !.fight_cost = 80000, !.fight_reward = 0,
        !.aggression_bias = SCALE, !.skirmish_threshold = 1000,
        !.endangered_threshold = 0,
        !.peace_floor_count = 0, !.max_age = 3, !.reproduction_chance = 2000]

\* The same without a population cap, with kinds that count as endangered in
\* pairs, a reproduction chance that the endangered bonus lifts past 1, a
\* crowding threshold the initial population meets and a reproduction
\* threshold low enough for a child's share to fall under the floor of 2.0.
CrowdedSettings ==
    [SmallSettings EXCEPT
        !.max_population = 0, !.endangered_threshold = 2,
        !.reproduction_chance = 9500, !.reproduction_overpop_pop_threshold = 6,
        !.reproduction_threshold = 50000]

\* The same as HarshSettings with agents that start with little more energy than
\* one engagement or one move costs.
FrailSettings ==
    [HarshSettings EXCEPT !.base_energy = 42000, !.move_cost = 40000]

Configurations == {SmallSettings, HarshSettings, CrowdedSettings, FrailSettings}

\* the engine under study as a record
Self ==
    [settings |-> settings, grid |-> grid, humidity |-> humidity,
     fertility |-> fertility, biome |-> biome, orcs |-> orcs,
     population |-> population, tick |-> tick, next_id |-> next_id,
     rng |-> randoms[RngOf(1)], raised |-> raised, event |-> event]

\* the second engine as a record
Twin == [twin EXCEPT !.rng = randoms[RngOf(2)]]

\* what of an engine is program state (event is observation only)
StateOf(E) ==
    [settings |-> E.settings, grid |-> E.grid, humidity |-> E.humidity,
     fertility |-> E.fertility, biome |-> E.biome, orcs |-> E.orcs,
     population |-> E.population, tick |-> E.tick, next_id |-> E.next_id,
     rng |-> E.rng]

Store(E) ==
    /\ grid' = E.grid
    /\ humidity' = E.humidity
    /\ fertility' = E.fertility
    /\ biome' = E.biome
    /\ orcs' = E.orcs
    /\ population' = E.population
    /\ tick' = E.tick
    /\ next_id' = E.next_id
    /\ randoms' = [randoms EXCEPT ![RngOf(1)] = E.rng]
    /\ raised' = E.raised
    /\ event' = E.event

NoCall ==
    [op |-> "none", orc |-> 0, x |-> 0, y |-> 0, grid |-> <<>>, orcs |-> <<>>,
     empty |-> <<>>, occupied |-> <<>>]

\* The process after the two engines were constructed from the Settings S, one
\* after the other, each on the Random object it draws from.
Constructed(S, e1, e2) ==
    Bind(<<NewRandom(S.seed, e1), NewRandom(S.seed, e2)>>, LAMBDA fresh :
      Bind(Construct(S, fresh[RngOf(1)]), LAMBDA E :
        Bind([fresh EXCEPT ![RngOf(1)] = E.rng], LAMBDA r1 :
          Bind(Construct(S, r1[RngOf(2)]), LAMBDA T :
            [E |-> E, T |-> T, randoms |-> [r1 EXCEPT ![RngOf(2)] = T.rng]]))))

StartStates ==
    {Constructed([c EXCEPT !.seed = <<sd>>], 0, 0) :
        c \in Configurations, sd \in 0..MaxSeed}
    \cup {Constructed([c EXCEPT !.seed = None], e1, e2) :
            c \in Configurations, e1 \in Entropy, e2 \in Entropy}

Init ==
    /\ \E st \in StartStates :
           /\ settings = st.E.settings
           /\ grid = st.E.grid
           /\ humidity = st.E.humidity
           /\ fertility = st.E.fertility
           /\ biome = st.E.biome
           /\ orcs = st.E.orcs
           /\ population = st.E.population
           /\ tick = st.E.tick
           /\ next_id = st.E.next_id
           /\ raised = st.E.raised
           /\ event = st.E.event
           /\ randoms = st.randoms
           /\ twin = [ncalls |-> 0] @@ [st.T EXCEPT !.rng = 0]
           /\ origin = [built |-> StateOf(st.E), from |-> 0,
                        born |-> [i \in st.E.population |-> 0],
                        at |-> [i \in st.E.population |-> st.E.orcs[i].position]]
    /\ pc = "idle"
    /\ order = <<>>
    /\ calls = <<>>
    /\ last = NoCall

\* step(): the snapshot and its shuffle
StepBegin ==
    /\ pc = "idle" /\ raised = "" /\ Len(calls) < MaxCalls
    /\ \E sh \in {Shuffle(Ascending(population), randoms[RngOf(1)])} :
           /\ order' = sh.list
           /\ randoms' = [randoms EXCEPT ![RngOf(1)] = sh.rng]
    /\ pc' = "loop"
    /\ calls' = Append(calls, "step")
    /\ event' = NoEvent
    /\ origin' = [origin EXCEPT !.at = [i \in population |-> orcs[i].position]]
    /\ UNCHANGED <<settings, grid, humidity, fertility, biome, orcs, population,
                   tick, next_id, raised, twin, last>>

\* The record of births after an iteration of the loop left the engine E: an
\* agent the iteration created is there when the running step() returns.
Born(E, born) ==
    [i \in DOMAIN born \cup (DOMAIN E.orcs \ DOMAIN orcs) |->
        IF i \in DOMAIN born THEN born[i] ELSE E.tick + 1]

\* A faulty variant of the iteration: the loop runs over the live population
\* instead of the snapshot, so an agent the iteration created joins the agents
\* still to process.
StepOrcLiveOrder ==
    /\ pc = "loop" /\ order # <<>>
    /\ \E E \in {process(Self, Head(order))} :
           /\ Store(E)
           /\ origin' = [origin EXCEPT !.born = Born(E, @)]
           /\ order' = Tail(order) \o Ascending(DOMAIN E.orcs \ DOMAIN orcs)
    /\ UNCHANGED <<settings, pc, calls, twin, last>>

\* step(): one iteration of the for loop
StepOrc ==
    /\ pc = "loop" /\ order # <<>>
    /\ \E E \in {process(Self, Head(order))} :
           /\ Store(E)
           /\ origin' = [origin EXCEPT !.born = Born(E, @)]
    /\ order' = Tail(order)
    /\ UNCHANGED <<settings, pc, calls, twin, last>>

\* A faulty variant of the end of step(): a step that processed no agent leaves
\* the tick counter as it is.
StepEndOnAgents ==
    /\ pc = "loop" /\ order = <<>>
    /\ tick' = IF event.id = 0 THEN tick ELSE tick + 1
    /\ pc' = "idle"
    /\ UNCHANGED <<settings, grid, humidity, fertility, biome, orcs, population,
                   next_id, randoms, raised, order, event, calls, twin, last, origin>>

\* step(): after the loop
StepEnd ==
    /\ pc = "loop" /\ order = <<>>
    /\ tick' = tick + 1
    /\ pc' = "idle"
    /\ UNCHANGED <<settings, grid, humidity, fertility, biome, orcs, population,
                   next_id, randoms, raised, order, event, calls, twin, last, origin>>

Reset ==
    /\ pc = "idle" /\ raised = "" /\ Len(calls) < MaxCalls
    /\ \E E \in {reset(Self)} :
           /\ Store([E EXCEPT !.event = NoEvent])
           /\ origin' = [origin EXCEPT !.from = randoms[RngOf(1)],
                                       !.born = [i \in E.population |-> 0],
                                       !.at = [i \in E.population |->
                                                  E.orcs[i].position]]
    /\ calls' = Append(calls, "reset")
    /\ UNCHANGED <<settings, pc, order, twin, last>>

\* The second engine makes the next call of the sequence the first one was given.
TwinCall ==
    /\ twin.ncalls < Len(calls)
    /\ \E T \in {IF calls[twin.ncalls + 1] = "step" THEN step(Twin) ELSE reset(Twin)} :
           /\ twin' = [T EXCEPT !.rng = 0, !.ncalls = @ + 1, !.event = NoEvent]
           /\ randoms' = [randoms EXCEPT ![RngOf(2)] = T.rng]
    /\ UNCHANGED <<settings, grid, humidity, fertility, biome, orcs, population,
                   tick, next_id, raised, pc, order, event, calls, last, origin>>

Next == StepBegin \/ StepOrc \/ StepEnd \/ Reset

Spec == Init /\ [][Next]_vars

NextTwin == StepBegin \/ StepOrc \/ StepEnd \/ Reset \/ TwinCall

SpecTwin == Init /\ [][NextTwin]_vars

---------------------------------------------------------------------------
(* The aging and the pressure step on their own: one agent with the default  *)
(* base energy, of any kind, on the single cell of a grid of any biome.      *)

ScenarioHumidity == {3000, 5500, 7000}

\* the defaults of config.py with the coefficients of the pressure step varied
ScenarioSettings ==
    {[DEFAULT_SETTINGS EXCEPT !.grid_width = 1, !.grid_height = 1,
                              !.humidity_penalty = hp, !.biome_bonus = bb,
                              !.biome_penalty = bp] :
        hp \in {0, 1800, 5000}, bb \in {0, 1600}, bp \in {0, 1200}}

InitPressure ==
    /\ settings \in ScenarioSettings
    /\ grid = [c \in Coords(settings) |-> 1]
    /\ \E h \in ScenarioHumidity : humidity = [c \in Coords(settings) |-> h]
    /\ fertility = [c \in Coords(settings) |-> 5000]
    /\ \E b \in 0..2 : biome = [c \in Coords(settings) |-> b]
    /\ \E k \in 0..2 :
           orcs = <<Orc(1, <<0, 0>>, k, SCALE, SCALE, SCALE, settings.base_energy)>>
    /\ population = {1}
    /\ tick = 0
    /\ next_id = 2
    /\ randoms = <<0, 0>>
    /\ raised = ""
    /\ pc = "scenario"
    /\ order = <<>>
    /\ event = NoEvent
    /\ calls = <<>>
    /\ twin = [ncalls |-> 0]
    /\ last = NoCall
    /\ origin = [built |-> <<>>, from |-> 0]

\* orc.tick(self.settings.energy_decay)
ScenarioTick ==
    /\ pc = "scenario"
    /\ \E E \in {Orc_tick(Self, 1, settings.energy_decay)} : Store(E)
    /\ pc' = "aged"
    /\ UNCHANGED <<settings, order, calls, twin, last, origin>>

\* self._apply_environment_pressure(orc)
ScenarioPressure ==
    /\ pc = "aged"
    /\ \E E \in {apply_environment_pressure(Self, 1)} : Store(E)
    /\ pc' = "pressed"
    /\ UNCHANGED <<settings, order, calls, twin, last, origin>>

NextPressure == ScenarioTick \/ ScenarioPressure

SpecPressure == InitPressure /\ [][NextPressure]_vars

---------------------------------------------------------------------------
(* The classification of _generate_biomes on its own: a grid of any shape of *)
(* up to MaxCells cells and a noise layer of any values, equal ones included.*)

\* values a cell of the noise layer may have (the layer is clamped to [0, 1])
NoiseValues == {3000, 5000, 7000}

LayerShapes ==
    {sh \in (1..MaxCells) \X (1..MaxCells) : sh[1] * sh[2] <= MaxCells}

InitBiomes ==
    /\ \E sh \in LayerShapes :
           settings = [DEFAULT_SETTINGS EXCEPT !.grid_width = sh[1], !.grid_height = sh[2]]
    /\ \E noise \in [Coords(settings) -> NoiseValues] :
           last = [op |-> "noise", layer |-> noise]
    /\ grid = [c \in Coords(settings) |-> 0]
    /\ humidity = [c \in Coords(settings) |-> 0]
    /\ fertility = [c \in Coords(settings) |-> 0]
    /\ biome = <<>>
    /\ orcs = <<>>
    /\ population = {}
    /\ tick = 0
    /\ next_id = 1
    /\ randoms = <<0, 0>>
    /\ raised = ""
    /\ pc = "noise"
    /\ order = <<>>
    /\ event = NoEvent
    /\ calls = <<>>
    /\ twin = [ncalls |-> 0]
    /\ origin = [built |-> <<>>, from |-> 0]

\* _generate_biomes from "flat = ..." on
BiomesClassify ==
    /\ pc = "noise"
    /\ biome' = classify(settings, last.layer)
    /\ pc' = "classified"
    /\ UNCHANGED <<settings, grid, humidity, fertility, orcs, population, tick, next_id,
                   randoms, raised, order, event, calls, twin, last, origin>>

NextBiomes == BiomesClassify

SpecBiomes == InitBiomes /\ [][NextBiomes]_vars

---------------------------------------------------------------------------
(* _biome_effect on its own: an agent kind and the three biomes, under       *)
(* Settings of any number of classes up to MaxClasses.                      *)

\* the defaults of config.py with the number of classes and the two biome
\* coefficients varied
EffectSettings ==
    {[DEFAULT_SETTINGS EXCEPT !.classes = n, !.biome_bonus = bb, !.biome_penalty = bp] :
        n \in 1..MaxClasses, bb \in {800, 1600}, bp \in {600, 1200}}

InitEffect ==
    /\ settings \in EffectSettings
    /\ \E k \in 0..2 : last = [op |-> "biome_effect", kind |-> k, effects |-> <<>>]
    /\ grid = <<>>
    /\ humidity = <<>>
    /\ fertility = <<>>
    /\ biome = <<>>
    /\ orcs = <<>>
    /\ population = {}
    /\ tick = 0
    /\ next_id = 1
    /\ randoms = <<0, 0>>
    /\ raised = ""
    /\ pc = "effect"
    /\ order = <<>>
    /\ event = NoEvent
    /\ calls = <<>>
    /\ twin = [ncalls |-> 0]
    /\ origin = [built |-> <<>>, from |-> 0]

\* self._biome_effect(kind, biome) for a biome not asked about yet
EffectCall ==
    /\ pc = "effect"
    /\ \E b \in (0..2) \ DOMAIN last.effects :
           last' = [last EXCEPT !.effects = @ @@ (b :> biome_effect(settings, last.kind, b))]
    /\ UNCHANGED <<settings, grid, humidity, fertility, biome, orcs, population, tick,
                   next_id, randoms, raised, pc, order, event, calls, twin, origin>>

NextEffect == EffectCall

SpecEffect == InitEffect /\ [][NextEffect]_vars

---------------------------------------------------------------------------
(* Construction and reset() under Settings of any grid shape, initial ratio  *)
(* and number of classes, with whole steps in between.                       *)

\* the initial ratios tried: none, the default 0.08, a half, two thirds, all
SeedRatios == {0, 800, 5000, 6700, SCALE}

SeedSettings ==
    {[SmallSettings EXCEPT !.grid_width = w, !.grid_height = h,
                           !.initial_orc_ratio = r, !.classes = n, !.seed = <<sd>>] :
        w \in 1..GridW, h \in 1..GridH, r \in SeedRatios, n \in 1..3, sd \in 0..1}

\* Simulation(settings) for each of them
SeedStates == {Construct(S, NewRandom(S.seed, 0)) : S \in SeedSettings}

InitSeed ==
    /\ \E E \in SeedStates :
           /\ settings = E.settings
           /\ grid = E.grid
           /\ humidity = E.humidity
           /\ fertility = E.fertility
           /\ biome = E.biome
           /\ orcs = E.orcs
           /\ population = E.population
           /\ tick = E.tick
           /\ next_id = E.next_id
           /\ raised = E.raised
           /\ randoms = <<E.rng, 0>>
    /\ event = NoEvent
    /\ pc = "idle"
    /\ order = <<>>
    /\ calls = <<>>
    /\ twin = [ncalls |-> 0]
    /\ last = NoCall
    /\ origin = [built |-> <<>>, from |-> 0]

\* step(), from call to return
SeedStep ==
    /\ Len(calls) < MaxCalls - 1
    /\ \E E \in {step(Self)} : Store([E EXCEPT !.event = NoEvent])
    /\ calls' = Append(calls, "step")
    /\ UNCHANGED <<settings, pc, order, twin, last, origin>>

\* reset()
SeedReset ==
    /\ Len(calls) < MaxCalls - 1
    /\ \E E \in {reset(Self)} : Store([E EXCEPT !.event = NoEvent])
    /\ calls' = Append(calls, "reset")
    /\ UNCHANGED <<settings, pc, order, twin, last, origin>>

NextSeed == SeedStep \/ SeedReset

SpecSeed == InitSeed /\ [][NextSeed]_vars

---------------------------------------------------------------------------
(* The Environment on its own: a client that constructs Orc objects and    *)
(* calls place, move, remove and the neighbour queries with any arguments. *)

\* the Environment and the Orc objects of the client, as the operators take them
Env == [settings |-> settings, grid |-> grid, orcs |-> orcs, raised |-> ""]

\* the positions the client constructs its Orc objects with
PoolPositions == {<<0, 0>>, <<GridW - 1, GridH - 1>>}

Range(seq) == {seq[k] : k \in 1..Len(seq)}

\* Environment(width, height) of the client, no agent in it yet
ClientEnvironment ==
    NewEnvironment(SmallSettings, CHOOSE e \in Entropy : TRUE)

InitEnv ==
    /\ settings = SmallSettings
    /\ grid = ClientEnvironment.grid
    /\ humidity = ClientEnvironment.humidity
    /\ fertility = ClientEnvironment.fertility
    /\ biome = ClientEnvironment.biome
    /\ \E pos \in [1..PoolSize -> PoolPositions] :
           orcs = [i \in 1..PoolSize |->
                     Orc(i, pos[i], 0, SCALE, SCALE, SCALE, SmallSettings.base_energy)]
    /\ population = {}
    /\ tick = 0
    /\ next_id = 1
    /\ randoms = <<ClientEnvironment.rng, ClientEnvironment.rng>>
    /\ raised = ""
    /\ pc = "client"
    /\ order = <<>>
    /\ event = NoEvent
    /\ calls = <<>>
    /\ twin = [ncalls |-> 0]
    /\ last = NoCall
    /\ origin = [built |-> <<>>, from |-> 0]

Called(op, o, x, y, E, empty, occupied) ==
    /\ grid' = E.grid
    /\ orcs' = E.orcs
    /\ raised' = E.raised
    /\ calls' = Append(calls, op)
    /\ last' = [op |-> op, orc |-> o, x |-> x, y |-> y, grid |-> grid, orcs |-> orcs,
                empty |-> empty, occupied |-> occupied]
    /\ UNCHANGED <<settings, humidity, fertility, biome, population, tick, next_id,
                   randoms, pc, order, event, twin, origin>>

EnvPlace ==
    /\ Len(calls) < MaxEnvCalls
    /\ \E o \in 1..PoolSize, x \in -1..settings.grid_width, y \in -1..settings.grid_height :
           Called("place", o, x, y, place(Env, o, x, y), <<>>, <<>>)

EnvMove ==
    /\ Len(calls) < MaxEnvCalls
    /\ \E o \in 1..PoolSize, x \in -1..settings.grid_width, y \in -1..settings.grid_height :
           Called("move", o, x, y, move(Env, o, <<x, y>>), <<>>, <<>>)

EnvRemove ==
    /\ Len(calls) < MaxEnvCalls
    /\ \E o \in 1..PoolSize : Called("remove", o, 0, 0, remove(Env, o), <<>>, <<>>)

EnvNeighbors ==
    /\ Len(calls) < MaxEnvCalls
    /\ \E c \in Coords(settings) :
           Called("neighbors", 0, c[1], c[2], Env,
                  empty_neighbors(Env, c[1], c[2]), occupied_neighbors(Env, c[1], c[2]))

NextEnv == EnvPlace \/ EnvMove \/ EnvRemove \/ EnvNeighbors

SpecEnv == InitEnv /\ [][NextEnv]_vars

---------------------------------------------------------------------------
(* Properties of the engine (Spec, SpecTwin) *)

LastCall == IF calls = <<>> THEN "none" ELSE calls[Len(calls)]

Cells == DOMAIN grid

\* C1: between calls (after construction and after any sequence of step() and
\* reset()), every occupied cell holds a member of population whose recorded
\* position is that cell, and no agent is held by two cells.
GridMatchesPopulation ==
    pc = "idle" =>
        /\ \A c \in Cells :
              grid[c] # 0 => grid[c] \in population /\ orcs[grid[c]].position = c
        /\ \A c, d \in Cells : grid[c] # 0 /\ grid[c] = grid[d] => c = d

\* step() and reset() were both called, agents died since the reset and others
\* are on the grid
GridMatchesPopulationSeen ==
    /\ pc = "idle" /\ Len(calls) >= 2 /\ LastCall = "step"
    /\ \E k \in 1..Len(calls) : calls[k] = "reset"
    /\ population # {} /\ Cardinality(population) < next_id - 1
    /\ \E c \in Cells : grid[c] # 0

\* C2: inside step(), after the processing of one agent, every agent created
\* since construction or reset is either in population and stored in the cell of
\* its position, or in neither population nor any cell.
RemovalIsAtomic ==
    pc = "loop" /\ event.id # 0 =>
        \A i \in DOMAIN orcs :
            \/ i \in population /\ grid[orcs[i].position] = i
            \/ i \notin population /\ \A c \in Cells : grid[c] # i

\* an agent was just removed in the middle of a step, another was born before
RemovalIsAtomicSeen ==
    /\ pc = "loop" /\ order # <<>>
    /\ event.outcome \in {"dead", "culled"}
    /\ event.id \notin population
    /\ Cardinality(DOMAIN orcs) > Cardinality(origin.built.population)

\* C3, in every state: the agents created so far have the ids 1 .. _next_id - 1,
\* each its own, and population holds only such ids.
IdsAllocated ==
    /\ DOMAIN orcs = 1..(next_id - 1)
    /\ \A i \in DOMAIN orcs : orcs[i].id = i
    /\ population \subseteq DOMAIN orcs

\* C3, in every step that is not a reset(): _next_id does not decrease, an agent
\* that is created gets the value of _next_id and _next_id moves past it, and
\* only a created agent joins population.
IdsAdvance ==
    (calls' = calls \/ calls'[Len(calls')] = "step") =>
        /\ next_id' >= next_id
        /\ (DOMAIN orcs') \ (DOMAIN orcs) \subseteq {next_id}
        /\ (DOMAIN orcs' # DOMAIN orcs) => next_id' = next_id + 1
        /\ population' \ population \subseteq (DOMAIN orcs') \ (DOMAIN orcs)

\* C3: over the step() calls that follow a construction or a reset, _next_id
\* never decreases, every new agent receives the value _next_id had just before,
\* the ids in population are distinct and below _next_id, and the id of a
\* removed agent is never given again.
IdsNeverReused == []IdsAllocated /\ [][IdsAdvance]_vars

\* a child was just born with the id _next_id - 1 after other agents had died
IdsNeverReusedSeen ==
    /\ event.outcome = "reproduced" /\ event.child = next_id - 1
    /\ event.child \in population
    /\ Cardinality(population) < next_id - 2

ResetRestoresConstruction ==
    pc = "idle" /\ LastCall = "reset" => StateOf(Self) = origin.built

\* C5: reset() sets tick to 0 and _next_id back to 1 before seeding and builds
\* the layers, the grid and the population anew, drawing from the random stream
\* where it stands: the state after reset() is the state of an engine
\* constructed with the same Settings on a generator in that position.
ResetRebuildsFromStream ==
    pc = "idle" /\ LastCall = "reset" =>
        /\ tick = 0
        /\ next_id = Cardinality(population) + 1
        /\ StateOf(Self) = StateOf(Construct(settings, origin.from))

\* a reset() after a step(), leaving a state other than the constructed one
ResetRebuildsFromStreamSeen ==
    /\ pc = "idle" /\ Len(calls) >= 2 /\ LastCall = "reset"
    /\ calls[Len(calls) - 1] = "step"
    /\ StateOf(Self) # origin.built
    /\ randoms[RngOf(1)] # origin.built.rng

\* C6: a decisive fight (both combatants outlast the engagement cost, the scores
\* differ by at least skirmish_threshold) removes the lower-scoring combatant
\* and, if the winner's energy after the reward is not positive, the winner too;
\* no other agent is removed and none is created.
DecisiveFightRemoves ==
    event.fight = "decisive" =>
        LET w == event.winner
            l == event.loser
            score(i) == IF i = event.challenger THEN event.scores[1]
                        ELSE event.scores[2]
            gone == IF orcs[w].energy <= 0 THEN {l, w} ELSE {l}
        IN  /\ {w, l} = {event.challenger, event.defender} /\ w # l
            /\ {w, l} \subseteq event.before
            /\ Abs(score(w) - score(l)) >= settings.skirmish_threshold
            /\ score(l) <= score(w)
            /\ settings.skirmish_threshold > 0 => score(l) < score(w)
            /\ population = event.before \ gone
            /\ Cardinality(population) = Cardinality(event.before) - Cardinality(gone)
            /\ \A c \in Cells : grid[c] \notin gone
            /\ DOMAIN orcs = event.heap

\* a decisive fight that the winner outlived
DecisiveFightRemovesSeen ==
    /\ event.fight = "decisive"
    /\ event.winner \in population /\ event.loser \notin population
    /\ Cardinality(event.before) >= 3

---------------------------------------------------------------------------
(* Properties of the Environment (SpecEnv) *)

Moved == last.orc

Target == <<last.x, last.y>>

WasAt == last.orcs[last.orc].position

\* C7: place(agent, x, y) raises when (x, y) is out of bounds or the cell is
\* occupied and then leaves the grid and the agent's position as they were;
\* otherwise the cell holds the agent and the agent's position is (x, y).
PlaceContract ==
    last.op = "place" =>
        IF Target \notin Coords(settings) \/ last.grid[Target] # 0
        THEN /\ raised # ""
             /\ grid = last.grid
             /\ orcs[Moved].position = WasAt
        ELSE /\ raised = ""
             /\ grid[Target] = Moved
             /\ orcs[Moved].position = Target

\* a place() on a cell that another agent holds
PlaceContractSeen ==
    /\ last.op = "place" /\ Target \in Coords(settings)
    /\ last.grid[Target] \notin {0, Moved}
    /\ raised # ""

RemoveContract ==
    last.op = "remove" =>
        /\ raised = ""
        /\ grid[WasAt] = IF last.grid[WasAt] = Moved THEN 0 ELSE last.grid[WasAt]
        /\ \A c \in Cells \ {WasAt} : grid[c] = last.grid[c]

\* a remove() of an agent whose recorded position is the cell of another agent
RemoveContractSeen ==
    /\ last.op = "remove"
    /\ last.grid[WasAt] \notin {0, Moved}
    /\ grid = last.grid

\* the in-bounds cells among (x+1, y), (x-1, y), (x, y+1), (x, y-1)
Adjacent(x, y) ==
    {(<<x + 1, y>>), (<<x - 1, y>>), (<<x, y + 1>>), (<<x, y - 1>>)}
        \cap Coords(settings)

\* C10: for an in-bounds cell (x, y), empty_neighbors and occupied_neighbors are
\* disjoint, together they are the in-bounds cells among the four adjacent ones,
\* the first holds the empty ones and the second the occupied ones, and neither
\* returns a diagonal cell or (x, y) itself.
NeighborQueries ==
    last.op = "neighbors" =>
        LET en == Range(last.empty)
            on == Range(last.occupied)
        IN  /\ en \cap on = {}
            /\ en \cup on = Adjacent(last.x, last.y)
            /\ en = {c \in Adjacent(last.x, last.y) : grid[c] = 0}
            /\ on = {c \in Adjacent(last.x, last.y) : grid[c] # 0}
            /\ Target \notin en \cup on
            /\ \A c \in en \cup on : Abs(c[1] - last.x) + Abs(c[2] - last.y) = 1
            /\ Len(last.empty) = Cardinality(en)
            /\ Len(last.occupied) = Cardinality(on)

\* a query on an inner cell with occupied and empty cells next to it
NeighborQueriesSeen ==
    /\ last.op = "neighbors"
    /\ Cardinality(Adjacent(last.x, last.y)) = 4
    /\ last.occupied # <<>> /\ last.empty # <<>>

---------------------------------------------------------------------------
(* Properties of the per-tick pipeline (Spec) *)

\* C11: the overpopulation cull removes an agent only when max_population is
\* positive and the population it reads is strictly above it (never at exactly
\* max_population); it removes that one agent, so the population it leaves is
\* not below max_population.
CullOnlyAboveCap ==
    event.outcome = "culled" =>
        /\ settings.max_population > 0
        /\ event.at_cull > settings.max_population
        /\ event.id \notin population
        /\ Cardinality(population) = event.at_cull - 1
        /\ Cardinality(population) >= settings.max_population

\* the cull check ran on a population of exactly max_population and the agent
\* stayed
CullOnlyAboveCapSeen ==
    /\ event.at_cull = settings.max_population /\ settings.max_population > 0
    /\ event.outcome = "acted"
    /\ event.id \in population

\* the calls of step() since construction or the last reset(), among the first k
RECURSIVE StepsSince(_)
StepsSince(k) ==
    IF k = 0 \/ calls[k] = "reset" THEN 0 ELSE 1 + StepsSince(k - 1)

\* C12, in every state: tick is the number of step() calls completed since
\* construction or the last reset().
TickCounts ==
    tick = StepsSince(Len(calls)) - (IF pc = "loop" THEN 1 ELSE 0)

\* C12, in every step: tick changes only at the end of a step(), by exactly 1,
\* or in a reset(), to 0.
TickMoves ==
    tick' # tick =>
        \/ pc = "loop" /\ pc' = "idle" /\ tick' = tick + 1
        \/ calls' = Append(calls, "reset") /\ tick' = 0

\* C12: tick starts at 0, every call of step() increases it by exactly 1
\* whatever happens to the agents and also when there is none, and only reset()
\* lowers it.
TickCountsSteps == []TickCounts /\ [][TickMoves]_vars

\* a step() on an empty population has returned, with tick raised
TickCountsStepsSeen ==
    /\ pc = "idle" /\ LastCall = "step" /\ event.id = 0
    /\ population = {} /\ tick >= 2

\* the members of pop that are of the kind k
LiveOfKind(pop, k) == Cardinality({i \in pop : orcs[i].kind = k})

\* C13: a reproduction attempt by an agent whose kind has at most
\* endangered_threshold live members (the threshold itself included) tests the
\* energy against reproduction_threshold * endangered_repro_factor and the draw
\* against min(1, reproduction_chance + endangered_repro_bonus); with more
\* members it uses reproduction_threshold and reproduction_chance; either chance
\* is multiplied by reproduction_overpop_factor when the population is at
\* least reproduction_overpop_pop_threshold; no child is born below the
\* threshold used.
ReproductionTermsRelaxed ==
    event.repro.called =>
        LET r == event.repro
            S == settings
            relaxed == LiveOfKind(r.before.population, orcs[event.id].kind)
                           <= S.endangered_threshold
            crowded == Cardinality(r.before.population)
                           >= S.reproduction_overpop_pop_threshold
            base == IF relaxed
                    THEN Min(SCALE, S.reproduction_chance + S.endangered_repro_bonus)
                    ELSE S.reproduction_chance
        IN  /\ r.threshold = IF relaxed
                             THEN Mul(S.reproduction_threshold, S.endangered_repro_factor)
                             ELSE S.reproduction_threshold
            /\ r.chance = IF crowded THEN Mul(base, S.reproduction_overpop_factor)
                          ELSE base
            /\ r.ret => r.before.energy >= r.threshold

\* an agent whose kind has exactly endangered_threshold members reproduced in a
\* crowded population, on a chance that the bonus would lift past 1
ReproductionTermsRelaxedSeen ==
    /\ event.repro.called /\ event.repro.ret
    /\ LiveOfKind(event.repro.before.population, orcs[event.id].kind)
           = settings.endangered_threshold
    /\ Cardinality(event.repro.before.population)
           >= settings.reproduction_overpop_pop_threshold
    /\ settings.reproduction_chance + settings.endangered_repro_bonus > SCALE

\* the least and the greatest of a non-empty set of numbers
Least(S) == CHOOSE m \in S : \A n \in S : m <= n

Greatest(S) == CHOOSE m \in S : \A n \in S : m >= n

\* C16: between calls, metrics().tick is the tick counter, metrics().population
\* is the number of agents in population, which is the number of occupied
\* cells and the sum of counts_by_kind(); the averages lie between the least
\* and the greatest trait of the agents; with no agent, metrics() returns
\* population 0 and the three averages 0.
MetricsAgree ==
    pc = "idle" =>
        LET m == metrics(Self)
            counts == counts_by_kind(Self)
            strengths == {orcs[i].strength : i \in population}
        IN  /\ m.tick = tick
            /\ m.population = Cardinality(population)
            /\ m.population = Cardinality({c \in Cells : grid[c] # 0})
            /\ m.population = SumTo(counts, Len(counts))
            /\ Len(counts) = Max(1, settings.classes)
            /\ population # {} =>
                  /\ Least(strengths) <= m.average_strength
                  /\ m.average_strength <= Greatest(strengths)
            /\ population = {} =>
                  /\ m.population = 0
                  /\ m.average_strength = 0
                  /\ m.average_agility = 0
                  /\ m.average_resilience = 0

\* after steps that removed every agent, metrics() reports tick and no agent
MetricsAgreeSeen ==
    /\ pc = "idle" /\ LastCall = "step" /\ tick >= 1
    /\ population = {} /\ DOMAIN orcs # {}
    /\ metrics(Self) = [tick |-> tick, population |-> 0, average_strength |-> 0,
                         average_agility |-> 0, average_resilience |-> 0]

\* the stages an agent with the given outcome went through, in order
StagesOf(outcome) ==
    CASE outcome = "skipped" -> <<>>
      [] outcome = "culled" -> <<"tick", "pressure", "social", "disease", "cull">>
      [] outcome = "dead" -> <<"tick", "pressure", "social", "disease", "cull", "death">>
      [] outcome = "reproduced" ->
            <<"tick", "pressure", "social", "disease", "cull", "death", "reproduce">>
      [] outcome = "acted" ->
            <<"tick", "pressure", "social", "disease", "cull", "death", "reproduce",
              "action">>

\* C17, after the processing of an agent: it went through aging, pressure,
\* social context, disease, cull check, death check, reproduction attempt and
\* action in this order, up to the stage that ended its turn; a culled or dead
\* agent is gone and made no reproduction attempt and no action; one that
\* reproduced took no action; one that acted had attempted to reproduce and
\* failed.
StagesInOrder ==
    event.id # 0 =>
        /\ event.outcome \in {"skipped", "culled", "dead", "reproduced", "acted"}
        /\ event.stages = StagesOf(event.outcome)
        /\ event.outcome \in {"skipped", "culled", "dead"} =>
              /\ event.id \notin population
              /\ ~event.repro.called
              /\ event.action = "none" /\ event.fight = "none"
        /\ event.outcome = "culled" <=> (event.at_cull # -1 /\ ~("death" \in Range(event.stages)))
        /\ event.outcome = "reproduced" =>
              /\ event.repro.called /\ event.repro.ret
              /\ event.action = "none" /\ event.fight = "none"
        /\ event.outcome = "acted" =>
              /\ event.repro.called /\ ~event.repro.ret
              /\ event.action \in {"forage", "fight", "move", "rest"}

\* C17, in every step of the loop: an agent of the snapshot that is no longer
\* in population is passed over; no Orc object is changed (it is not aged), no
\* random number is drawn, population and grid stay as they are.
RemovedIsSkipped ==
    pc = "loop" /\ order # <<>> /\ Head(order) \notin population /\ order' = Tail(order)
        => /\ UNCHANGED <<orcs, randoms, population, grid, next_id>>
           /\ event'.outcome = "skipped"

\* C17: within one step(), each agent of the snapshot still in population
\* goes through the stages in order and stops at the one that removes it or at
\* a birth, and an agent removed earlier in the step is not processed at all.
PipelineOrder == []StagesInOrder /\ [][RemovedIsSkipped]_vars

\* an agent of the snapshot was passed over, removed earlier in the same step
\* and not aged in it
PipelineOrderSeen ==
    /\ pc = "loop" /\ event.outcome = "skipped"
    /\ event.id \in DOMAIN orcs /\ event.id \notin population
    /\ orcs[event.id].age < tick + 1

\* the cells c and d are next to each other in a row or in a column
Adjacent4(c, d) == Abs(c[1] - d[1]) + Abs(c[2] - d[2]) = 1

\* C18: whenever the action of an agent is a fight, it is resolved between the
\* agent (the challenger) and a defender that stand on 4-adjacent cells and are
\* of different kinds, and among the agents alive when the attack was decided
\* the defender's kind has more than endangered_threshold members and the
\* challenger's kind more than peace_floor_count.
FightsAreGated ==
    event.action = "fight" \/ event.fight # "none" =>
        LET c == event.challenger
            d == event.defender
        IN  /\ event.action = "fight"
            /\ event.fight \in {"engage", "skirmish", "decisive"}
            /\ c = event.id /\ d # c /\ {c, d} \subseteq event.before
            /\ Adjacent4(orcs[c].position, orcs[d].position)
            /\ orcs[c].kind # orcs[d].kind
            /\ LiveOfKind(event.before, orcs[d].kind) > settings.endangered_threshold
            /\ LiveOfKind(event.before, orcs[c].kind) > settings.peace_floor_count

\* a fight against a defender whose kind was one member above the endangered
\* floor
FightsAreGatedSeen ==
    /\ event.action = "fight" /\ event.fight # "none"
    /\ LiveOfKind(event.before, orcs[event.defender].kind)
           = settings.endangered_threshold + 1
    /\ settings.endangered_threshold > 0

\* the cell the agent i stood on when _maybe_reproduce was called
CellThen(i) == CHOOSE c \in Cells : event.repro.before.grid[c] = i

\* the cells next to it
AroundThen(i) == {c \in Cells : Adjacent4(c, CellThen(i))}

\* the energy an agent of the kind k needs to reproduce among the agents pop
ThresholdAmong(pop, k) ==
    IF LiveOfKind(pop, k) <= settings.endangered_threshold
    THEN Mul(settings.reproduction_threshold, settings.endangered_repro_factor)
    ELSE settings.reproduction_threshold

\* C19: a call of _maybe_reproduce creates a child only if, when it is called,
\* the parent's energy is at least the effective threshold, a 4-adjacent cell
\* holds an agent of the parent's kind and a 4-adjacent cell is empty; a call
\* that creates no child (one of the three failing, or the draw) leaves
\* population, grid, _next_id and the parent's energy as they were.
ReproductionNeeds ==
    event.repro.called =>
        LET r == event.repro
            p == event.id
            enough == r.before.energy
                        >= ThresholdAmong(r.before.population, orcs[p].kind)
            partner == \E c \in AroundThen(p) :
                          /\ r.before.grid[c] # 0
                          /\ orcs[r.before.grid[c]].kind = orcs[p].kind
            room == \E c \in AroundThen(p) : r.before.grid[c] = 0
        IN  /\ r.ret => enough /\ partner /\ room
            /\ ~(enough /\ partner /\ room) => ~r.ret
            /\ ~r.ret => r.after = r.before
            /\ r.ret => r.after.population # r.before.population

\* an attempt with the energy and a partner next to the parent but no empty
\* cell around it: no child
ReproductionNeedsSeen ==
    /\ event.repro.called /\ ~event.repro.ret
    /\ event.repro.before.energy
          >= ThresholdAmong(event.repro.before.population, orcs[event.id].kind)
    /\ \E c \in AroundThen(event.id) :
          /\ event.repro.before.grid[c] # 0
          /\ orcs[event.repro.before.grid[c]].kind = orcs[event.id].kind
    /\ \A c \in AroundThen(event.id) : event.repro.before.grid[c] # 0
    /\ event.repro.after = event.repro.before

\* C20: a successful reproduction adds exactly one agent, the child: it has
\* the parent's kind, age 0, no infection and the id that _next_id had, which
\* moves on by 1; it stands on a cell that was an empty 4-neighbour of the
\* parent; its energy is max(2.0, min(base_energy, parent_energy *
\* reproduction_energy_share)); the parent's energy drops by the child's
\* energy, so the two add up to the parent's energy before the birth.
BirthAccounting ==
    event.outcome = "reproduced" =>
        LET r == event.repro
            p == event.id
            ch == event.child
            site == orcs[ch].position
        IN  /\ ch \notin r.before.population
            /\ population = r.before.population \cup {ch}
            /\ Cardinality(population) = Cardinality(r.before.population) + 1
            /\ orcs[ch].id = ch /\ ch = r.before.next_id /\ next_id = ch + 1
            /\ orcs[ch].kind = orcs[p].kind
            /\ orcs[ch].age = 0
            /\ ~orcs[ch].infected
            /\ site \in AroundThen(p) /\ Adjacent4(site, orcs[p].position)
            /\ r.before.grid[site] = 0 /\ grid[site] = ch
            /\ \A c \in Cells \ {site} : grid[c] = r.before.grid[c]
            /\ orcs[ch].energy =
                  Max(20000, Min(settings.base_energy,
                                 Mul(r.before.energy, settings.reproduction_energy_share)))
            /\ orcs[p].energy = r.before.energy - orcs[ch].energy
            /\ orcs[p].energy + orcs[ch].energy = r.before.energy

\* a birth in which the child received the share of the parent's energy,
\* between the floor of 2.0 and base_energy
BirthAccountingSeen ==
    /\ event.outcome = "reproduced" /\ event.child \in population
    /\ orcs[event.child].energy > 20000
    /\ orcs[event.child].energy < settings.base_energy
    /\ orcs[event.id].energy > 0

\* max(duration, 1) of Orc.infect for the virus_duration of the Settings
FullTimer == Max(settings.virus_duration, 1)

\* the agent whose turn the last iteration of the loop was (0 when none was taken)
Turned == IF event.outcome \in {"none", "skipped"} THEN 0 ELSE event.id

\* Between the turns of two agents: a live agent is infected exactly when its
\* timer is positive, and the timer lies in 0..max(1, virus_duration); the agent
\* that entered its turn infected left its disease step with the timer one lower.
TimerInRange ==
    /\ \A i \in population :
          /\ orcs[i].infected <=> orcs[i].infection_timer > 0
          /\ orcs[i].infection_timer \in 0..FullTimer
    /\ Turned # 0 /\ event.timer > 0 =>
          orcs[Turned].infection_timer = event.timer - 1

\* One iteration of the loop leaves the timer of every other infected agent as it
\* is, and gives an agent that was not infected the timer 0 or, when the infection
\* spread to it, the full one.
TimerNotRaised ==
    pc = "loop" /\ pc' = "loop" =>
        \A i \in population :
            i # Turned' =>
                IF orcs[i].infected
                THEN orcs'[i].infection_timer = orcs[i].infection_timer
                ELSE orcs'[i].infection_timer \in {0, FullTimer}

\* C23: between the turns of two agents every live agent has infected <=>
\* infection_timer > 0 and 0 <= infection_timer <= max(1, virus_duration); the
\* timer of an infected agent goes down by exactly 1 at each of its own disease
\* steps and is never raised, so that an infection is over after at most
\* max(1, virus_duration) of them.
InfectionRunsDown == []TimerInRange /\ [][TimerNotRaised]_vars

\* C23 witness: an agent the infection had spread to (full timer at the start of
\* its turn) went through its disease step and is still infected and alive.
InfectionRunsDownSeen ==
    /\ Turned # 0 /\ Turned \in population
    /\ event.timer = FullTimer
    /\ orcs[Turned].infected /\ orcs[Turned].infection_timer = FullTimer - 1

\* C24: when step() returns, no agent that remains in population (and on the
\* grid) has energy <= 0.
NoExhaustedSurvivor ==
    pc = "idle" /\ LastCall = "step" =>
        \A i \in population : orcs[i].energy > 0

\* C26: when a combatant is down to energy <= 0 after the engagement cost, every
\* combatant whose energy is <= 0 is removed from population and grid, and the
\* fight ends there without a contest.
EngagementRemovesExhausted ==
    event.fight = "engage" =>
        /\ event.winner = 0 /\ event.scores = <<0, 0>>
        /\ \A i \in {event.challenger, event.defender} :
              orcs[i].energy <= 0 =>
                  i \notin population /\ (\A c \in Cells : grid[c] # i)

\* the agents step() created (the others were seeded by construction or reset)
Children == {i \in population : origin.born[i] > 0}

\* C25: at every tick boundary every agent in population has age <= max_age, and
\* its age is the number of step() calls completed after the call (step(),
\* construction or reset()) that created it; an agent born during a step has age
\* 0 when that step returns.
AgeCountsSteps ==
    pc = "idle" =>
        \A i \in population :
            /\ orcs[i].age <= settings.max_age
            /\ orcs[i].age = tick - origin.born[i]

\* C25 witness: at a tick boundary the population holds a child that has aged
\* and a child born in the step that just returned.
AgeCountsStepsSeen ==
    /\ pc = "idle"
    /\ \E i \in Children : orcs[i].age >= 1
    /\ \E i \in Children : orcs[i].age = 0 /\ origin.born[i] = tick

\* Every Orc object created so far carries the id it is known by and three
\* strictly positive traits.
TraitsPositive ==
    \A i \in DOMAIN orcs :
        /\ orcs[i].id = i
        /\ orcs[i].strength > 0 /\ orcs[i].agility > 0 /\ orcs[i].resilience > 0

\* A step of the engine other than reset() (which discards the agents) keeps
\* id, kind and agility of every agent, and keeps strength and resilience except
\* for the winner of a decisive fight, who gains 0.05 and 0.03.
TraitsKept ==
    (calls' = calls \/ LastCall' # "reset") =>
        \A i \in DOMAIN orcs :
            /\ i \in DOMAIN orcs'
            /\ orcs'[i].id = orcs[i].id
            /\ orcs'[i].kind = orcs[i].kind
            /\ orcs'[i].agility = orcs[i].agility
            /\ IF pc = "loop" /\ pc' = "loop"
                   /\ event'.fight = "decisive" /\ event'.winner = i
                THEN /\ orcs'[i].strength = orcs[i].strength + 500
                     /\ orcs'[i].resilience = orcs[i].resilience + 300
                ELSE /\ orcs'[i].strength = orcs[i].strength
                     /\ orcs'[i].resilience = orcs[i].resilience

\* C27: id, kind and agility of an agent never change, strength and resilience
\* never decrease and change only when the agent wins a decisive fight (by 0.05
\* and 0.03), not in a skirmish or any other step; the three traits of every
\* agent, seeded or born, are strictly positive at all times.
TraitsOnlyGrowByVictory == []TraitsPositive /\ [][TraitsKept]_vars

\* C27 witness: a defender won a decisive fight and lives on, strengthened.
TraitsOnlyGrowByVictorySeen ==
    /\ event.fight = "decisive"
    /\ event.winner = event.defender /\ event.winner \in population

\* the Manhattan distance of two cells
Distance(c, d) == Abs(c[1] - d[1]) + Abs(c[2] - d[2])

\* C28: every Environment.move issued by step() succeeds: the destination is a
\* 4-neighbour of the agent and the agent stands on it afterwards, so move_cost
\* is not charged for a move that did not happen; and from one tick boundary to
\* the next an agent that is still there has gone at most one 4-adjacent step.
MovesSucceed ==
    /\ event.action = "move" =>
          /\ ~event.move_failed
          /\ event.id \in population
          /\ orcs[event.id].position = event.dest
          /\ grid[event.dest] = event.id
          /\ Distance(event.dest, origin.at[event.id]) = 1
    /\ \A i \in population \cap DOMAIN origin.at :
          Distance(orcs[i].position, origin.at[i]) <= 1

\* C28 witness: in the second step of a run an agent has moved, and another
\* agent that moved earlier in the same step is still where it went.
MovesSucceedSeen ==
    /\ tick >= 1 /\ pc = "loop" /\ event.action = "move"
    /\ \E i \in (population \cap DOMAIN origin.at) \ {event.id} :
          Distance(orcs[i].position, origin.at[i]) = 1

\* endangered_threshold >= 1 and peace_floor_count >= 1
FloorsSet == settings.endangered_threshold >= 1 /\ settings.peace_floor_count >= 1

\* the kinds that have a live member
KindsAlive == {orcs[i].kind : i \in population}

\* After a fight the challenger's kind has at least peace_floor_count members and
\* the defender's kind at least endangered_threshold.
FloorsHeld ==
    FloorsSet /\ event.fight \in {"engage", "skirmish", "decisive"} =>
        /\ LiveOfKind(population, orcs[event.challenger].kind)
              >= settings.peace_floor_count
        /\ LiveOfKind(population, orcs[event.defender].kind)
              >= settings.endangered_threshold

\* A kind loses its last member only by the death check or the cull of an
\* agent's turn.
ExtinctionByDeathOrCull ==
    FloorsSet /\ pc = "loop" /\ pc' = "loop" /\ KindsAlive' # KindsAlive =>
        event'.outcome \in {"dead", "culled"}

\* C30: with endangered_threshold >= 1 and peace_floor_count >= 1 a fight never
\* removes the last live member of a kind: after _resolve_fight, however it ended,
\* the challenger's kind has at least peace_floor_count members and the
\* defender's kind at least endangered_threshold, so a kind goes extinct only
\* through the death check or the overpopulation cull.
FightsSpareKinds == []FloorsHeld /\ [][ExtinctionByDeathOrCull]_vars

\* C30 witness: a fight removed the defender and left the defender's kind with
\* endangered_threshold members, no more.
FightsSpareKindsSeen ==
    /\ FloorsSet /\ event.fight \in {"engage", "skirmish", "decisive"}
    /\ event.defender \notin population
    /\ LiveOfKind(population, orcs[event.defender].kind) = settings.endangered_threshold

---------------------------------------------------------------------------
(* Properties of the pressure step (SpecPressure) *)

\* the only cell of the scenario
Here == <<0, 0>>

\* C14 as stated: an agent of energy 18.0 on humidity 0.3, aged with
\* energy_decay 0.32 and put through the pressure step, has energy
\* 18.0 - 0.32 - (0.45 - 0.3) * humidity_penalty whatever its kind and the biome.
PressureByHumidityOnly ==
    pc = "pressed" /\ humidity[Here] = 3000 =>
        orcs[1].energy = 180000 - 3200 - Mul(4500 - 3000, settings.humidity_penalty)

\* C14: the same agent has energy 18.0 - 0.32 - (0.45 - 0.3) * humidity_penalty,
\* plus biome_bonus when the biome is its kind, minus biome_penalty when the
\* biome is neither its kind nor the one before its kind in the cycle.
PressureByHumidityAndBiome ==
    pc = "pressed" /\ humidity[Here] = 3000 =>
        orcs[1].energy =
            180000 - 3200 - Mul(4500 - 3000, settings.humidity_penalty)
            + (IF biome[Here] = orcs[1].kind THEN settings.biome_bonus
               ELSE IF (biome[Here] + 1) % 3 = orcs[1].kind THEN 0
               ELSE -settings.biome_penalty)

\* the agent went through both steps on humidity 0.3 in a biome that penalizes it
PressureByHumidityAndBiomeSeen ==
    /\ pc = "pressed" /\ humidity[Here] = 3000 /\ orcs[1].age = 1
    /\ biome[Here] # orcs[1].kind /\ (biome[Here] + 1) % 3 # orcs[1].kind
    /\ settings.biome_penalty > 0 /\ settings.humidity_penalty > 0
    /\ orcs[1].energy < 180000 - 3200 - Mul(1500, settings.humidity_penalty)

---------------------------------------------------------------------------
(* Properties of the biome classification (SpecBiomes) *)

\* the number of cells of the class k
ClassSize(k) == Cardinality({c \in DOMAIN biome : biome[c] = k})

\* C15: whatever the grid and the noise layer (equal values and fewer than
\* three cells included), every cell gets a class in {0, 1, 2} and the sizes of
\* the three classes differ pairwise by at most (width * height) mod 3.
BiomeThirds ==
    pc = "classified" =>
        /\ \A c \in DOMAIN biome : biome[c] \in 0..2
        /\ \A a, b \in 0..2 :
              Abs(ClassSize(a) - ClassSize(b))
                  <= (settings.grid_width * settings.grid_height) % 3

---------------------------------------------------------------------------
(* Properties of _biome_effect (SpecEffect) *)

\* the biomes asked about so far
Asked == DOMAIN last.effects

PenaltyByComment ==
    pc = "effect" =>
        \A b \in Asked : (last.effects[b][2] # 0) <=> (last.kind = (b + 1) % 3)

---------------------------------------------------------------------------
(* Properties of construction and reset (SpecSeed) *)

\* int(capacity * initial_orc_ratio) for a ratio in [0, 1]
SeedTarget == (settings.grid_width * settings.grid_height * settings.initial_orc_ratio) \div SCALE

\* C29: right after construction and after every reset(), whatever calls came
\* before (the initial ratio lying in [0, 1]): tick is 0, population holds
\* exactly floor(grid_width * grid_height * initial_orc_ratio) agents with the ids
\* 1..n on pairwise distinct cells, _next_id is n + 1, every agent has energy
\* base_energy, age 0, is not infected and is of the kind "biome class of its
\* cell modulo classes", and no Environment.place was rejected.
SeededAfresh ==
    LastCall \in {"none", "reset"} =>
        /\ tick = 0
        /\ raised = ""
        /\ population = 1..SeedTarget
        /\ DOMAIN orcs = 1..SeedTarget
        /\ next_id = SeedTarget + 1
        /\ \A i \in population :
              /\ orcs[i].id = i
              /\ orcs[i].energy = settings.base_energy
              /\ orcs[i].age = 0
              /\ ~orcs[i].infected
              /\ orcs[i].position \in Cells
              /\ grid[orcs[i].position] = i
              /\ orcs[i].kind = biome[orcs[i].position] % settings.classes
        /\ \A i, j \in population : i # j => orcs[i].position # orcs[j].position
        /\ \A c \in Cells : grid[c] \in population \cup {0}

\* C29 witness: a reset() after a step(), under two classes, with an agent seeded
\* on a cell of biome 2.
SeededAfreshSeen ==
    /\ Len(calls) = 2 /\ calls[1] = "step" /\ calls[2] = "reset"
    /\ settings.classes = 2 /\ SeedTarget >= 2
    /\ \E i \in population : biome[orcs[i].position] = 2 /\ orcs[i].kind = 0

----------------------------------------------------------------------------
\* Properties of the births within a step() (Spec)

\* The agents the running step(), or the last one, took into its snapshot.
Snapshot == DOMAIN origin.at

\* The agents the running step(), or the last one, created.
Newborn ==
    {i \in DOMAIN origin.born :
        origin.born[i] > 0 /\ origin.born[i] = (IF pc = "loop" THEN tick + 1 ELSE tick)}

BirthsWithinStep ==
    /\ Cardinality(population) <= settings.grid_width * settings.grid_height
    /\ Cardinality(population) <= 2 * Cardinality(Snapshot)
    /\ Newborn \cap Snapshot = {}
    /\ LastCall = "step" =>
          /\ Range(order) \subseteq Snapshot
          /\ \A j, k \in 1..Len(order) : order[j] = order[k] => j = k
          /\ event.id \in Snapshot \cup {0}
          /\ Cardinality(Newborn) <= Cardinality(Snapshot) - Len(order)

OneChildPerTurn ==
    (pc = "loop" /\ order # <<>>) =>
        LET new == DOMAIN orcs' \ DOMAIN orcs
        IN  /\ Cardinality(new) <= 1
            /\ population' \ population = new
            /\ next_id' = next_id + Cardinality(new)
            /\ Head(order) \notin Range(order')
            /\ new # {} => /\ event'.id = Head(order)
                           /\ event'.outcome = "reproduced"
                           /\ new = {event'.child}

\* C31: an agent born during a step() is not in the snapshot of that step and
\* is not processed in it (the agents still to process and the agent of the
\* last iteration are snapshot agents, each at most once); an iteration creates
\* at most one agent, the child of the agent it processes, so that the agents
\* a step() created are never more than the snapshot agents it has processed;
\* the population is never larger than twice the snapshot of the running or
\* last step(), and never larger than grid_width * grid_height.
BirthsBounded == []BirthsWithinStep /\ [][OneChildPerTurn]_vars

\* C31 witness: inside a step(), a child this step created is alive while
\* snapshot agents are still to be processed.
BirthsBoundedSeen ==
    /\ pc = "loop" /\ order # <<>>
    /\ Newborn \cap population # {}

----------------------------------------------------------------------------
\* Properties of extinction (Spec)

\* A step of step(), not of reset().
InStep == calls' # Append(calls, "reset")

KindsStayExtinct == InStep => KindsAlive' \subseteq KindsAlive

EmptyStepOnlyTicks ==
    (InStep /\ population = {}) =>
        /\ grid' = grid
        /\ population' = population
        /\ next_id' = next_id
        /\ orcs' = orcs
        /\ randoms' = randoms
        /\ <<humidity', fertility', biome', raised'>> = <<humidity, fertility, biome, raised>>
        /\ (pc = "idle" /\ pc' = "loop") => order' = <<>>
        /\ tick' = IF pc = "loop" /\ pc' = "idle" THEN tick + 1 ELSE tick

EmptySnapshotNoTurn ==
    (LastCall = "step" /\ Snapshot = {}) =>
        /\ population = {}
        /\ order = <<>>
        /\ event = NoEvent

\* C32: no step of step() brings a kind back: the kinds with a live member
\* after any part of a step() are among those with a live member before it, so
\* a kind without a live member at a tick boundary has none at every later tick
\* boundary until reset(); and on an empty population step() takes an empty
\* snapshot, processes no agent, draws nothing, leaves grid, population, orcs,
\* _next_id and the terrain as they are and only raises tick by 1.
ExtinctionAbsorbing ==
    /\ [][KindsStayExtinct /\ EmptyStepOnlyTicks]_vars
    /\ []EmptySnapshotNoTurn

\* C32 witness: a step() that began on an empty population has returned, after
\* an earlier step() in which the last agents died.
ExtinctionAbsorbingSeen ==
    /\ pc = "idle" /\ LastCall = "step"
    /\ Snapshot = {} /\ population = {}
    /\ tick >= 2 /\ next_id > 1

=============================================================================
